---- MODULE Spec2Model ----
(***************************************************************************)
(* p-tool: manifest-driven parallel archiving and copying.                 *)
(*                                                                         *)
(* Strings are modelled as sequences of atoms.  An atom is one character   *)
(* ("/", ".", " ", "\n") or an indivisible run of characters (a file name  *)
(* stem such as "a", or MN, the text ".__p-tool-manifest__.txt").          *)
(* Prefix, suffix, trim and split are computed on the atoms.               *)
(***************************************************************************)
EXTENDS Integers, Sequences, FiniteSets, TLC

(***************************************************************************)
(* Bounds of the model.                                                    *)
(***************************************************************************)
MaxConc == 2
MaxTarFiles == 4
MaxRTFiles == 2
MaxEntries == 2
MaxManifest == 2
MaxCpFiles == 3
MaxFnFiles == 2
MaxSplitFiles == 5
MaxCount == 6
MaxLinks == 3
MaxParts == 3
MaxMergeParts == 2
MaxBlocks == 2

(***************************************************************************)
(* String helpers (Go strings / path/filepath).                            *)
(***************************************************************************)
MN == ".__p-tool-manifest__.txt"
manifestName == <<MN>>

HasPrefix(s, p) == Len(s) >= Len(p) /\ SubSeq(s, 1, Len(p)) = p

HasSuffix(s, p) == Len(s) >= Len(p) /\ SubSeq(s, Len(s) - Len(p) + 1, Len(s)) = p

IsSpace(c) == c \in {" ", "\n", "\t", "\r"}

RECURSIVE TrimLeft(_)
TrimLeft(s) == IF s # <<>> /\ IsSpace(Head(s)) THEN TrimLeft(Tail(s)) ELSE s

RECURSIVE TrimRight(_)
TrimRight(s) ==
    IF s # <<>> /\ IsSpace(s[Len(s)]) THEN TrimRight(SubSeq(s, 1, Len(s) - 1)) ELSE s

TrimSpace(s) == TrimRight(TrimLeft(s))

\* filepath.ToSlash: on a '/'-separated platform the text is unchanged
ToSlash(s) == s

RECURSIVE SplitAcc(_, _, _)
SplitAcc(s, sep, cur) ==
    IF s = <<>> THEN <<cur>>
    ELSE IF Head(s) = sep THEN <<cur>> \o SplitAcc(Tail(s), sep, <<>>)
    ELSE SplitAcc(Tail(s), sep, Append(cur, Head(s)))

\* strings.Split(s, sep) for a one-character separator
Split(s, sep) == SplitAcc(s, sep, <<>>)

\* the "/"-separated components of a path
Components(p) == Split(p, "/")

RECURSIVE JoinComponents(_)
JoinComponents(cs) ==
    IF cs = <<>> THEN <<>>
    ELSE IF Len(cs) = 1 THEN Head(cs)
    ELSE Head(cs) \o <<"/">> \o JoinComponents(Tail(cs))

Dot == <<".">>
DotDot == <<".", ".">>

\* the component stack of filepath.Clean for a relative path: "" and "." are
\* dropped, ".." removes the component before it or is kept at the front
RECURSIVE CleanAcc(_, _)
CleanAcc(cs, out) ==
    IF cs = <<>> THEN out
    ELSE LET c == Head(cs)
         IN  IF c = <<>> \/ c = Dot THEN CleanAcc(Tail(cs), out)
             ELSE IF c = DotDot /\ out # <<>> /\ out[Len(out)] # DotDot
             THEN CleanAcc(Tail(cs), SubSeq(out, 1, Len(out) - 1))
             ELSE CleanAcc(Tail(cs), Append(out, c))

\* filepath.Clean of a relative path ("." for the empty result)
Clean(p) ==
    LET cs == CleanAcc(Components(p), <<>>)
    IN  IF cs = <<>> THEN Dot ELSE JoinComponents(cs)

\* index of the last "/" of s, 0 when there is none
RECURSIVE LastSlash(_)
LastSlash(s) ==
    IF s = <<>> THEN 0
    ELSE IF s[Len(s)] = "/" THEN Len(s)
    ELSE LastSlash(SubSeq(s, 1, Len(s) - 1))

\* filepath.Dir of a relative path: Clean of everything before the last "/"
Dir(p) ==
    LET i == LastSlash(p)
    IN  IF i = 0 THEN Dot
        ELSE IF i = 1 THEN <<"/">>
        ELSE Clean(SubSeq(p, 1, i - 1))

\* filepath.Join(root, rel) as a path relative to root; a result that starts
\* with ".." lies outside root
JoinRoot(rel) == Clean(rel)

\* the proper ancestors of a path that filepath.Dir walks through
RECURSIVE Ancestors(_)
Ancestors(p) ==
    LET d == Dir(p)
    IN  IF d = Dot \/ d = <<"/">> \/ d = <<>> THEN {} ELSE {d} \cup Ancestors(d)

(***************************************************************************)
(* Values shared by the operations.                                        *)
(***************************************************************************)
None == "none"

PermBits == {"ur", "uw", "ux", "gw"}

\* the process umask applied by open(2) to the mode of a newly created file
Umask == {"gw"}

\* names of the files of the source tree D, in tree order
BaseNames == <<"a", "b", "c", "e", "f", "g">>

\* BasePath(i): odd files sit in the root, even ones in directory d
BasePath(i) == IF i % 2 = 1 THEN <<BaseNames[i]>> ELSE <<"d", "/", BaseNames[i]>>

\* content and mode of the regular file at path p of the static source tree
SrcContent(p) == IF p[Len(p)] = "c" THEN <<>> ELSE <<"data:">> \o p

SrcMode(p) ==
    IF "/" \in {p[i] : i \in 1..Len(p)}
    THEN {"ur", "uw", "ux", "suid"}
    ELSE {"ur", "uw", "gw"}

VARIABLES
    \* ---- static environment
    missing,        \* manifest paths with no file in the source tree
    \* ---- createTarParallel (mutex-based archive build)
    fileList,       \* the Manifest
    concurrency,    \* number of workers
    taskChan,       \* buffered channel of capacity concurrency*2
    sendIdx,        \* next Manifest index the dispatcher sends
    chanClosed,     \* close(taskChan) has run
    tarMain,        \* position of the calling goroutine
    wPc,            \* position of each worker goroutine
    wItem,          \* relPath held by each worker
    wHeader,        \* header built by readFileHeaderForTar
    mu,             \* holder of mu (0 = unlocked)
    writeErrMu,     \* holder of writeErrMu (0 = unlocked, -1 = the caller)
    writeErr,       \* the fatal error
    processedFiles,
    failedFiles,
    tarFile,        \* frames written to the archive stream
    tarRet,         \* value returned by createTarParallel
    \* ---- extractTarParallel
    xConcurrency,   \* number of extraction workers
    xMain,          \* position of the calling goroutine
    readPos,        \* next frame of tarFile the tar reader returns
    fileDataMap,    \* normalized path -> buffered entry
    manifestContent,\* the captured manifest text
    xFileList,      \* result of parseManifestContent
    xTaskChan,
    xSendIdx,
    xChanClosed,
    xPc,            \* position of each extraction worker
    xItem,
    xProcessed,
    xFailed,
    xAttempts,      \* per path: times a worker took it from the queue (att) and
                    \* times it was counted as failed (fail)
    xRet,           \* value returned by extractTarParallel
    dest,           \* the destination tree: path relative to destDir -> node
    mkdirFault,     \* destination directories that os.MkdirAll cannot create
    createFault,    \* destination paths that cannot be created
    \* ---- copyFilesParallel (the cp command)
    cFileList,
    cConcurrency,
    cMain,
    cTaskChan,
    cSendIdx,
    cChanClosed,
    cPc,
    cItem,
    dirCache,       \* keys of the sync.Map of created destination directories
    copiedFiles,
    cFailed,        \* failedFiles of copyFilesParallel
    cAttempts,      \* per path: times dequeued (att), times counted failed (fail)
    cRet,
    destDir,        \* the tree under the copy's destination directory
    readFault,      \* source paths whose content cannot be read
    writeFault,     \* paths whose destination file rejects the content
    outFile,        \* the output file of the archive build, on disk
    \* ---- splitFileList and the manifest text functions, applied to an input
    sFileList,      \* the Manifest
    sCount,         \* the target count
    sDone,          \* the functions that have been applied
    sChunks,        \* result of splitFileList(sFileList, sCount)
    sText,          \* the manifest text written for sFileList
    sParsed,        \* parseManifestContent(sText)
    sRead,          \* readManifest over a file holding sText
    \* ---- GenerateManifest
    gTree,          \* the directory tree that is scanned
    dirPathAbs,     \* whether dirPath is an absolute path
    gMain,
    gStack,         \* pending walkDir calls, the next one first
    visited,        \* the visited map of real paths
    gOut,           \* the paths written to the manifest file, in order
    \* ---- createMultipleTarsParallel / extractMultipleTarsParallel
    mOp,            \* "build" or "merge"
    mParts,         \* per part: the files of the part
    mMain,
    mPc,
    mIdx,           \* per part task: the entry the tar process is at
    mSawErr,        \* per part task: the tar process has reported an error
    mErr,           \* per part task: the error returned for the part
    mTmp,           \* per part task: the value read by failedTars++
    mMu,            \* holder of mu, 0 when free
    failedTars,
    mRet,
    mergeDest,      \* the files under the destination of the merge
    partFault,      \* parts whose tar process fails
    tarFlavour,     \* what tar -k does with an existing file
    \* ---- createTarParallel of tar.go (channel-based archive build); it shares
    \*      the variables of the mutex-based build for its locals of the same name
    dataChan,       \* the data channel, capacity concurrency*2
    dataChanClosed,
    writerPc,       \* the writer goroutine
    writerData,     \* the item the writer goroutine has received
    processedCount

tarVars == <<fileList, concurrency, taskChan, sendIdx, chanClosed, tarMain, wPc,
             wItem, wHeader, mu, writeErrMu, writeErr, processedFiles,
             failedFiles, tarFile, tarRet>>

untarVars == <<xConcurrency, xMain, readPos, fileDataMap, manifestContent,
               xFileList, xTaskChan, xSendIdx, xChanClosed, xPc, xItem, xProcessed,
               xFailed, xAttempts, xRet, dest>>

cpVars == <<cFileList, cConcurrency, cMain, cTaskChan, cSendIdx, cChanClosed, cPc,
            cItem, dirCache, copiedFiles, cFailed, cAttempts, cRet, destDir>>

envVars == <<missing, mkdirFault, createFault, readFault, writeFault, outFile>>

fnVars == <<sFileList, sCount, sDone, sChunks, sText, sParsed, sRead>>

genVars == <<gTree, dirPathAbs, gMain, gStack, visited, gOut>>

multiVars == <<mOp, mParts, mMain, mPc, mIdx, mSawErr, mErr, mTmp, mMu, failedTars,
               mRet, mergeDest, partFault, tarFlavour>>

\* the state of the commands modelled further down
chanVars == <<dataChan, dataChanClosed, writerPc, writerData, processedCount>>

moreVars == <<fnVars, genVars, multiVars, chanVars>>

vars == <<envVars, tarVars, untarVars, cpVars, moreVars>>

Workers == 1..concurrency

RECURSIVE SeqRange(_)
SeqRange(s) == IF s = <<>> THEN {} ELSE {Head(s)} \cup SeqRange(Tail(s))

(***************************************************************************)
(* Archive frames.                                                         *)
(***************************************************************************)
TypeReg == "reg"
TypeDir == "dir"
TypeSymlink == "symlink"
TypeLink == "link"
TypeFifo == "fifo"

HdrFrame(name, typ, mode, size, link) ==
    [k |-> "hdr", name |-> name, typ |-> typ, mode |-> mode, size |-> size,
     link |-> link, bytes |-> <<>>]

DataFrame(bytes) ==
    [k |-> "data", name |-> <<>>, typ |-> None, mode |-> {}, size |-> Len(bytes),
     link |-> <<>>, bytes |-> bytes]

\* tar.FileInfoHeader: permission bits are kept, setuid becomes c_ISUID
FileInfoHeaderMode(m) ==
    (m \cap PermBits) \cup (IF "suid" \in m THEN {"c_ISUID"} ELSE {})

NoHeader == HdrFrame(<<>>, None, {}, 0, <<>>)

\* readFileHeaderForTar: os.Stat, FileInfoHeader, Name = ToSlash(relPath)
readFileHeaderForTar(relPath) ==
    IF relPath \in missing
    THEN [err |-> "notexist", header |-> NoHeader]
    ELSE [err |-> None,
          header |-> HdrFrame(ToSlash(relPath), TypeReg,
                              FileInfoHeaderMode(SrcMode(relPath)),
                              Len(SrcContent(relPath)), <<>>)]

NoErr == [what |-> None, path |-> <<>>]

WriteErrOf(what, relPath) == [what |-> what, path |-> relPath]

\* the manifest text: one "./path\n" line per Manifest entry
RECURSIVE ManifestText(_)
ManifestText(list) ==
    IF list = <<>> THEN <<>>
    ELSE LET formattedPath == ToSlash(Head(list))
             line == IF HasPrefix(formattedPath, <<".", "/">>)
                     THEN formattedPath
                     ELSE <<".", "/">> \o formattedPath
         IN  line \o <<"\n">> \o ManifestText(Tail(list))

ManifestHeader(content) == HdrFrame(manifestName, TypeReg, {"ur", "uw"}, Len(content), <<>>)

(***************************************************************************)
(* createTarParallel, mutex-based (the tar command).                       *)
(***************************************************************************)
TarStart(list, conc) ==
    /\ fileList = list
    /\ concurrency = conc
    /\ taskChan = <<>>
    /\ sendIdx = 1
    /\ chanClosed = FALSE
    /\ tarMain = "send"
    /\ wPc = [w \in 1..conc |-> "recv"]
    /\ wItem = [w \in 1..conc |-> <<>>]
    /\ wHeader = [w \in 1..conc |-> NoHeader]
    /\ mu = 0
    /\ writeErrMu = 0
    /\ writeErr = NoErr
    /\ processedFiles = 0
    /\ failedFiles = 0
    /\ tarFile = <<>>
    /\ tarRet = "running"

\* for _, relPath := range fileList { taskChan <- relPath }
TarSend ==
    /\ tarMain = "send"
    /\ sendIdx <= Len(fileList)
    /\ Len(taskChan) < concurrency * 2
    /\ taskChan' = Append(taskChan, fileList[sendIdx])
    /\ sendIdx' = sendIdx + 1
    /\ UNCHANGED <<envVars, moreVars, untarVars, cpVars, fileList, concurrency, chanClosed, tarMain, wPc, wItem,
                   wHeader, mu, writeErrMu, writeErr, processedFiles, failedFiles,
                   tarFile, tarRet>>

\* close(taskChan)
TarClose ==
    /\ tarMain = "send"
    /\ sendIdx > Len(fileList)
    /\ chanClosed' = TRUE
    /\ tarMain' = "wait"
    /\ UNCHANGED <<envVars, moreVars, untarVars, cpVars, fileList, concurrency, taskChan, sendIdx, wPc, wItem,
                   wHeader, mu, writeErrMu, writeErr, processedFiles, failedFiles,
                   tarFile, tarRet>>

\* variant of TarWait: the workers are not waited for
TarWaitNoJoin ==
    /\ tarMain = "wait"
    /\ writeErrMu = 0
    /\ tarMain' = "final"
    /\ UNCHANGED <<envVars, moreVars, untarVars, cpVars, fileList, concurrency, taskChan, sendIdx, chanClosed, wPc,
                   wItem, wHeader, mu, writeErrMu, writeErr, processedFiles,
                   failedFiles, tarFile, tarRet>>

\* wg.Wait(), the final progress read, then writeErrMu.Lock(); err = writeErr
TarWait ==
    /\ tarMain = "wait"
    /\ \A w \in Workers : wPc[w] = "exit"
    /\ writeErrMu = 0
    /\ tarMain' = "final"
    /\ UNCHANGED <<envVars, moreVars, untarVars, cpVars, fileList, concurrency, taskChan, sendIdx, chanClosed, wPc,
                   wItem, wHeader, mu, writeErrMu, writeErr, processedFiles,
                   failedFiles, tarFile, tarRet>>

\* if err != nil return err; if failedFiles > 0 return error;
\* writeManifestToTar (header, then content; either write may fail)
TarFinish ==
    /\ tarMain = "final"
    /\ tarMain' = "returned"
    /\ IF writeErr # NoErr
       THEN tarRet' = "writeErr" /\ UNCHANGED tarFile
       ELSE IF failedFiles > 0
       THEN tarRet' = "failed" /\ UNCHANGED tarFile
       ELSE LET content == ManifestText(fileList)
            IN  \/ /\ tarFile' = tarFile \o <<ManifestHeader(content), DataFrame(content)>>
                   /\ tarRet' = "ok"
                \/ /\ tarFile' = Append(tarFile, ManifestHeader(content))
                   /\ tarRet' = "manifestErr"
                \/ /\ UNCHANGED tarFile
                   /\ tarRet' = "manifestErr"
    /\ UNCHANGED <<envVars, moreVars, untarVars, cpVars, fileList, concurrency, taskChan, sendIdx, chanClosed, wPc,
                   wItem, wHeader, mu, writeErrMu, writeErr, processedFiles,
                   failedFiles>>

(***************************************************************************)
(* A worker goroutine of createTarParallel.                                *)
(***************************************************************************)
\* variant: a worker takes the newest path of the queue, not the oldest
TwRecvNewest(w) ==
    /\ wPc[w] = "recv"
    /\ taskChan # <<>>
    /\ wItem' = [wItem EXCEPT ![w] = taskChan[Len(taskChan)]]
    /\ taskChan' = SubSeq(taskChan, 1, Len(taskChan) - 1)
    /\ wPc' = [wPc EXCEPT ![w] = "check1"]
    /\ UNCHANGED <<envVars, moreVars, untarVars, cpVars, fileList, concurrency, sendIdx, chanClosed, tarMain,
                   wHeader, mu, writeErrMu, writeErr, processedFiles, failedFiles,
                   tarFile, tarRet>>

\* for relPath := range taskChan
TwRecv(w) ==
    /\ wPc[w] = "recv"
    /\ taskChan # <<>>
    /\ wItem' = [wItem EXCEPT ![w] = Head(taskChan)]
    /\ taskChan' = Tail(taskChan)
    /\ wPc' = [wPc EXCEPT ![w] = "check1"]
    /\ UNCHANGED <<envVars, moreVars, untarVars, cpVars, fileList, concurrency, sendIdx, chanClosed, tarMain,
                   wHeader, mu, writeErrMu, writeErr, processedFiles, failedFiles,
                   tarFile, tarRet>>

\* the range loop ends: the channel is closed and drained; defer wg.Done()
TwExit(w) ==
    /\ wPc[w] = "recv"
    /\ taskChan = <<>>
    /\ chanClosed
    /\ wPc' = [wPc EXCEPT ![w] = "exit"]
    /\ UNCHANGED <<envVars, moreVars, untarVars, cpVars, fileList, concurrency, taskChan, sendIdx, chanClosed,
                   tarMain, wItem, wHeader, mu, writeErrMu, writeErr, processedFiles,
                   failedFiles, tarFile, tarRet>>

\* writeErrMu.Lock() at the top of the iteration and after mu.Lock()
TwLockErr(w) ==
    /\ wPc[w] \in {"check1", "check2", "failH", "failC"}
    /\ writeErrMu = 0
    /\ writeErrMu' = w
    /\ wPc' = [wPc EXCEPT ![w] = CASE wPc[w] = "check1" -> "read1"
                                   [] wPc[w] = "check2" -> "read2"
                                   [] wPc[w] = "failH" -> "setH"
                                   [] wPc[w] = "failC" -> "setC"]
    /\ UNCHANGED <<envVars, moreVars, untarVars, cpVars, fileList, concurrency, taskChan, sendIdx, chanClosed,
                   tarMain, wItem, wHeader, mu, writeErr, processedFiles, failedFiles,
                   tarFile, tarRet>>

\* variant: a path skipped after the fatal error is not counted as processed
TwCheck1SkipUncounted(w) ==
    /\ wPc[w] = "read1"
    /\ writeErrMu' = 0
    /\ IF writeErr # NoErr
       THEN /\ wPc' = [wPc EXCEPT ![w] = "recv"]
            /\ UNCHANGED <<wHeader, processedFiles>>
       ELSE LET r == readFileHeaderForTar(wItem[w])
            IN  /\ wHeader' = [wHeader EXCEPT ![w] = r.header]
                /\ wPc' = [wPc EXCEPT ![w] = IF r.err # None THEN "warn" ELSE "lock"]
                /\ UNCHANGED processedFiles
    /\ UNCHANGED <<envVars, moreVars, untarVars, cpVars, fileList, concurrency, taskChan, sendIdx, chanClosed,
                   tarMain, wItem, mu, writeErr, failedFiles, tarFile, tarRet>>

\* if writeErr != nil { writeErrMu.Unlock(); processedFiles++; continue }
\* writeErrMu.Unlock(); header, err := readFileHeaderForTar(sourceDir, relPath)
TwCheck1(w) ==
    /\ wPc[w] = "read1"
    /\ writeErrMu' = 0
    /\ IF writeErr # NoErr
       THEN /\ processedFiles' = processedFiles + 1
            /\ wPc' = [wPc EXCEPT ![w] = "recv"]
            /\ UNCHANGED wHeader
       ELSE LET r == readFileHeaderForTar(wItem[w])
            IN  /\ wHeader' = [wHeader EXCEPT ![w] = r.header]
                /\ wPc' = [wPc EXCEPT ![w] = IF r.err # None THEN "warn" ELSE "lock"]
                /\ UNCHANGED processedFiles
    /\ UNCHANGED <<envVars, moreVars, untarVars, cpVars, fileList, concurrency, taskChan, sendIdx, chanClosed,
                   tarMain, wItem, mu, writeErr, failedFiles, tarFile, tarRet>>

\* variant: a worker that warns about an unreadable source without counting it
TwWarnNoCount(w) ==
    /\ wPc[w] = "warn"
    /\ mu = 0
    /\ processedFiles' = processedFiles + 1
    /\ wPc' = [wPc EXCEPT ![w] = "recv"]
    /\ UNCHANGED <<envVars, moreVars, untarVars, cpVars, fileList, concurrency, taskChan, sendIdx,
                   chanClosed, tarMain, wItem, wHeader, mu, writeErrMu, writeErr,
                   failedFiles, tarFile, tarRet>>

\* err != nil: mu.Lock(); print the warning; mu.Unlock(); failedFiles++;
\* processedFiles++; continue
TwWarn(w) ==
    /\ wPc[w] = "warn"
    /\ mu = 0
    /\ failedFiles' = failedFiles + 1
    /\ processedFiles' = processedFiles + 1
    /\ wPc' = [wPc EXCEPT ![w] = "recv"]
    /\ UNCHANGED <<envVars, moreVars, untarVars, cpVars, fileList, concurrency, taskChan, sendIdx, chanClosed,
                   tarMain, wItem, wHeader, mu, writeErrMu, writeErr, tarFile, tarRet>>

\* variant of TwLock: mu is not waited for
TwLockUnguarded(w) ==
    /\ wPc[w] = "lock"
    /\ mu' = w
    /\ wPc' = [wPc EXCEPT ![w] = "check2"]
    /\ UNCHANGED <<envVars, moreVars, untarVars, cpVars, fileList, concurrency, taskChan, sendIdx, chanClosed,
                   tarMain, wItem, wHeader, writeErrMu, writeErr, processedFiles,
                   failedFiles, tarFile, tarRet>>

\* mu.Lock()
TwLock(w) ==
    /\ wPc[w] = "lock"
    /\ mu = 0
    /\ mu' = w
    /\ wPc' = [wPc EXCEPT ![w] = "check2"]
    /\ UNCHANGED <<envVars, moreVars, untarVars, cpVars, fileList, concurrency, taskChan, sendIdx, chanClosed,
                   tarMain, wItem, wHeader, writeErrMu, writeErr, processedFiles,
                   failedFiles, tarFile, tarRet>>

\* variant of TwCheck2: no re-check of writeErr under mu
TwCheck2NoRecheck(w) ==
    /\ wPc[w] = "read2"
    /\ writeErrMu' = 0
    /\ wPc' = [wPc EXCEPT ![w] = "header"]
    /\ UNCHANGED <<envVars, moreVars, untarVars, cpVars, fileList, concurrency, taskChan, sendIdx, chanClosed,
                   tarMain, wItem, wHeader, mu, writeErr, processedFiles, failedFiles,
                   tarFile, tarRet>>

\* the re-check under mu: if writeErr != nil { unlock both; processedFiles++; continue }
TwCheck2(w) ==
    /\ wPc[w] = "read2"
    /\ writeErrMu' = 0
    /\ IF writeErr # NoErr
       THEN /\ mu' = 0
            /\ processedFiles' = processedFiles + 1
            /\ wPc' = [wPc EXCEPT ![w] = "recv"]
       ELSE /\ wPc' = [wPc EXCEPT ![w] = "header"]
            /\ UNCHANGED <<mu, processedFiles>>
    /\ UNCHANGED <<envVars, moreVars, untarVars, cpVars, fileList, concurrency, taskChan, sendIdx, chanClosed,
                   tarMain, wItem, wHeader, writeErr, failedFiles, tarFile, tarRet>>

\* tarWriter.WriteHeader(header): the write succeeds or fails
TwWriteHeader(w) ==
    /\ wPc[w] = "header"
    /\ \/ /\ tarFile' = Append(tarFile, wHeader[w])
          /\ wPc' = [wPc EXCEPT ![w] = "content"]
       \/ /\ wPc' = [wPc EXCEPT ![w] = "failH"]
          /\ UNCHANGED tarFile
    /\ UNCHANGED <<envVars, moreVars, untarVars, cpVars, fileList, concurrency, taskChan, sendIdx, chanClosed,
                   tarMain, wItem, wHeader, mu, writeErrMu, writeErr, processedFiles,
                   failedFiles, tarRet>>

\* variant of TwWriteContent: mu is released before a failure is recorded
TwWriteContentUnlocksEarly(w) ==
    /\ wPc[w] = "content"
    /\ LET content == SrcContent(wItem[w])
       IN  \/ /\ tarFile' = Append(tarFile, DataFrame(content))
              /\ mu' = 0
              /\ processedFiles' = processedFiles + 1
              /\ wPc' = [wPc EXCEPT ![w] = "recv"]
           \/ /\ wPc' = [wPc EXCEPT ![w] = "failC"]
              /\ mu' = 0
              /\ UNCHANGED <<tarFile, processedFiles>>
    /\ UNCHANGED <<envVars, moreVars, untarVars, cpVars, fileList, concurrency, taskChan, sendIdx, chanClosed,
                   tarMain, wItem, wHeader, writeErrMu, writeErr, failedFiles, tarRet>>

\* writeFileContentToTar: os.Open, io.CopyBuffer into the archive stream;
\* on success mu.Unlock(); processedFiles++
TwWriteContent(w) ==
    /\ wPc[w] = "content"
    /\ LET content == SrcContent(wItem[w])
       IN  \/ /\ tarFile' = Append(tarFile, DataFrame(content))
              /\ mu' = 0
              /\ processedFiles' = processedFiles + 1
              /\ wPc' = [wPc EXCEPT ![w] = "recv"]
           \/ \* os.Open fails: nothing is written
              /\ wPc' = [wPc EXCEPT ![w] = "failC"]
              /\ UNCHANGED <<tarFile, mu, processedFiles>>
           \/ \* the copy fails after part of the content was written
              /\ content # <<>>
              /\ tarFile' = Append(tarFile, DataFrame(SubSeq(content, 1, Len(content) - 1)))
              /\ wPc' = [wPc EXCEPT ![w] = "failC"]
              /\ UNCHANGED <<mu, processedFiles>>
    /\ UNCHANGED <<envVars, moreVars, untarVars, cpVars, fileList, concurrency, taskChan, sendIdx, chanClosed,
                   tarMain, wItem, wHeader, writeErrMu, writeErr, failedFiles, tarRet>>

\* variant of TwSetErr: mu is kept on the error return
TwSetErrKeepsLock(w) ==
    /\ wPc[w] \in {"setH", "setC"}
    /\ writeErr' = WriteErrOf(IF wPc[w] = "setH" THEN "header" ELSE "content", wItem[w])
    /\ writeErrMu' = 0
    /\ processedFiles' = processedFiles + 1
    /\ wPc' = [wPc EXCEPT ![w] = "exit"]
    /\ UNCHANGED <<envVars, moreVars, untarVars, cpVars, fileList, concurrency, taskChan, sendIdx, chanClosed,
                   tarMain, wItem, wHeader, mu, failedFiles, tarFile, tarRet>>

\* writeErr = fmt.Errorf(...); writeErrMu.Unlock(); mu.Unlock(); processedFiles++; return
TwSetErr(w) ==
    /\ wPc[w] \in {"setH", "setC"}
    /\ writeErr' = WriteErrOf(IF wPc[w] = "setH" THEN "header" ELSE "content", wItem[w])
    /\ writeErrMu' = 0
    /\ mu' = 0
    /\ processedFiles' = processedFiles + 1
    /\ wPc' = [wPc EXCEPT ![w] = "exit"]
    /\ UNCHANGED <<envVars, moreVars, untarVars, cpVars, fileList, concurrency, taskChan, sendIdx, chanClosed,
                   tarMain, wItem, wHeader, failedFiles, tarFile, tarRet>>

TarNext ==
    \/ TarSend
    \/ TarClose
    \/ TarWait
    \/ TarFinish
    \/ \E w \in Workers : TwRecv(w)
    \/ \E w \in Workers : TwExit(w)
    \/ \E w \in Workers : TwLockErr(w)
    \/ \E w \in Workers : TwCheck1(w)
    \/ \E w \in Workers : TwWarn(w)
    \/ \E w \in Workers : TwLock(w)
    \/ \E w \in Workers : TwCheck2(w)
    \/ \E w \in Workers : TwWriteHeader(w)
    \/ \E w \in Workers : TwWriteContent(w)
    \/ \E w \in Workers : TwSetErr(w)

(***************************************************************************)
(* The destination tree and the file-system calls of extraction.           *)
(***************************************************************************)
Node(typ, content, mode, link) ==
    [typ |-> typ, content |-> content, mode |-> mode, link |-> link]

EmptyTree == [q \in {} |-> Node(None, <<>>, {}, <<>>)]

Put(t, p, v) == [q \in DOMAIN t \cup {p} |-> IF q = p THEN v ELSE t[q]]

Remove(t, p) == [q \in DOMAIN t \ {p} |-> t[q]]

\* the permission bits chmod(2) takes from os.FileMode(header.Mode): the tar
\* bit c_ISUID is no os.FileMode flag and is dropped
SyscallPerm(headerMode) == headerMode \cap PermBits

\* a path made of ".." components only: the directories above the destination
\* root, which exist before the call
Above(p) ==
    LET cs == Components(p)
    IN  cs # <<>> /\ \A i \in 1..Len(cs) : cs[i] = DotDot

ParentExists(t, p) ==
    \/ Dir(p) = Dot
    \/ Above(Dir(p))
    \/ Dir(p) \in DOMAIN t /\ t[Dir(p)].typ = TypeDir

HasChildren(t, p) == \E q \in DOMAIN t : p \in Ancestors(q)

\* os.MkdirAll(d): fails on a path component that is not a directory or
\* cannot be created
MkdirAllFails(t, d) ==
    \E a \in {q \in ({d} \cup Ancestors(d)) \ {Dot} : ~Above(q)} :
        \/ a \in DOMAIN t /\ t[a].typ # TypeDir
        \/ a \notin DOMAIN t /\ a \in mkdirFault

MkdirAll(t, d, mode) ==
    [q \in DOMAIN t \cup {a \in ({d} \cup Ancestors(d)) \ {Dot} : ~Above(a)} |->
        IF q \in DOMAIN t THEN t[q] ELSE Node(TypeDir, <<>>, mode \ Umask, <<>>)]

\* os.Chmod(target, mode), best effort
Chmod(t, p, mode) == IF p \in DOMAIN t THEN [t EXCEPT ![p].mode = mode] ELSE t

Result(err, t) == [err |-> err, tree |-> t]

\* case tar.TypeReg: os.OpenFile(O_CREATE|O_WRONLY|O_TRUNC, mode), Write,
\* Close, os.Chmod, os.Chtimes
WriteRegular(t, target, entry) ==
    IF \/ target \in createFault
       \/ ~ParentExists(t, target)
       \/ target \in DOMAIN t /\ t[target].typ = TypeDir
    THEN Result("create", t)
    ELSE LET perm == SyscallPerm(entry.header.mode)
             created == IF target \in DOMAIN t
                        THEN [t EXCEPT ![target].content = entry.content]
                        ELSE Put(t, target, Node(TypeReg, entry.content, perm \ Umask, <<>>))
         IN  Result(None, Chmod(created, target, perm))

\* case tar.TypeDir: os.MkdirAll(targetPath, mode), os.Chmod, os.Chtimes
WriteDirectory(t, target, entry) ==
    IF MkdirAllFails(t, target)
    THEN Result("mkdir", t)
    ELSE Result(None, Chmod(MkdirAll(t, target, SyscallPerm(entry.header.mode)),
                            target, SyscallPerm(entry.header.mode)))

\* os.Remove(targetPath): a directory is removed only when empty
RemoveFails(t, target) == t[target].typ = TypeDir /\ HasChildren(t, target)

\* case tar.TypeSymlink: os.Symlink; on EEXIST os.Remove and os.Symlink again
WriteSymlink(t, target, entry) ==
    LET node == Node(TypeSymlink, <<>>, PermBits, entry.header.link)
    IN  IF target \in DOMAIN t
        THEN IF RemoveFails(t, target) THEN Result("remove", t)
             ELSE IF target \in createFault THEN Result("symlink", Remove(t, target))
             ELSE Result(None, Put(t, target, node))
        ELSE IF target \in createFault \/ ~ParentExists(t, target)
        THEN Result("symlink", t)
        ELSE Result(None, Put(t, target, node))

\* case tar.TypeLink: linkTarget = filepath.Join(destDir, Linkname); os.Link;
\* on EEXIST os.Remove and os.Link again
WriteHardlink(t, target, entry) ==
    LET linkTarget == JoinRoot(entry.header.link)
    IN  IF linkTarget \notin DOMAIN t \/ t[linkTarget].typ = TypeDir
        THEN Result("link", t)
        ELSE IF target \in DOMAIN t
        THEN IF RemoveFails(t, target) THEN Result("remove", t)
             ELSE IF target \in createFault \/ target = linkTarget
             THEN Result("link", Remove(t, target))
             ELSE Result(None, Put(t, target, t[linkTarget]))
        ELSE IF target \in createFault \/ ~ParentExists(t, target)
        THEN Result("link", t)
        ELSE Result(None, Put(t, target, t[linkTarget]))

\* writeFileEntry(destDir, relPath, entry)
writeFileEntry(t, relPath, entry) ==
    LET targetPath == JoinRoot(relPath)
    IN  CASE entry.header.typ = TypeReg -> WriteRegular(t, targetPath, entry)
          [] entry.header.typ = TypeDir -> WriteDirectory(t, targetPath, entry)
          [] entry.header.typ = TypeSymlink -> WriteSymlink(t, targetPath, entry)
          [] entry.header.typ = TypeLink -> WriteHardlink(t, targetPath, entry)
          [] OTHER -> Result("unsupported", t)

(***************************************************************************)
(* extractTarParallel.                                                     *)
(***************************************************************************)
FileEntry(header, content) == [header |-> header, content |-> content]

NoEntries == [q \in {} |-> FileEntry(NoHeader, <<>>)]

NoManifest == [found |-> FALSE, text |-> <<>>]

\* variant: the leading "./" is kept
NormalizeNameKeep(name) == name

\* the normalization of header.Name: one leading "./" is removed
NormalizeName(name) ==
    IF HasPrefix(name, <<".", "/">>) THEN SubSeq(name, 3, Len(name)) ELSE name

\* the test that decides whether an entry is the embedded manifest
IsManifestEntry(normalizedPath) ==
    normalizedPath = manifestName \/ HasSuffix(normalizedPath, manifestName)

RECURSIVE ParseLines(_)
ParseLines(lines) ==
    IF lines = <<>> THEN <<>>
    ELSE LET raw == Head(lines)
             line == TrimSpace(raw)
             normalizedPath == ToSlash(NormalizeName(line))
         IN  IF Len(raw) = 0 \/ line = <<>>
             THEN ParseLines(Tail(lines))
             ELSE <<normalizedPath>> \o ParseLines(Tail(lines))

\* parseManifestContent(content)
parseManifestContent(content) == ParseLines(Split(content, "\n"))

\* the state of a call that has not started
UntarIdle ==
    /\ xConcurrency = 1
    /\ xMain = "idle"
    /\ readPos = 1
    /\ fileDataMap = NoEntries
    /\ manifestContent = NoManifest
    /\ xFileList = <<>>
    /\ xTaskChan = <<>>
    /\ xSendIdx = 1
    /\ xChanClosed = FALSE
    /\ xPc = [w \in 1..1 |-> "recv"]
    /\ xItem = [w \in 1..1 |-> <<>>]
    /\ xProcessed = 0
    /\ xFailed = 0
    /\ xAttempts = [q \in {} |-> [att |-> 0, fail |-> 0]]
    /\ xRet = "running"
    /\ dest = EmptyTree

\* the data frame that follows the header at readPos, if any
ContentAt(pos) ==
    IF pos + 1 <= Len(tarFile) /\ tarFile[pos + 1].k = "data"
    THEN tarFile[pos + 1].bytes
    ELSE <<>>

NextPos(pos) ==
    IF pos + 1 <= Len(tarFile) /\ tarFile[pos + 1].k = "data" THEN pos + 2 ELSE pos + 1

\* variant: an entry does not replace the one already buffered for its path
UntarReadEntryKeepFirst ==
    /\ xMain = "read"
    /\ readPos <= Len(tarFile)
    /\ LET header == tarFile[readPos]
           normalizedPath == NormalizeName(header.name)
           content == ContentAt(readPos)
       IN  IF header.k # "hdr" \/ Len(content) < header.size
           THEN /\ xMain' = "returned"
                /\ xRet' = "readErr"
                /\ UNCHANGED <<readPos, fileDataMap, manifestContent>>
           ELSE /\ readPos' = NextPos(readPos)
                /\ UNCHANGED <<xMain, xRet>>
                /\ IF IsManifestEntry(normalizedPath)
                   THEN /\ manifestContent' = [found |-> TRUE, text |-> content]
                        /\ UNCHANGED fileDataMap
                   ELSE /\ fileDataMap' =
                              IF normalizedPath \in DOMAIN fileDataMap
                              THEN fileDataMap
                              ELSE Put(fileDataMap, normalizedPath,
                                       FileEntry(header, IF header.typ = TypeReg
                                                         THEN content ELSE <<>>))
                        /\ UNCHANGED manifestContent
    /\ UNCHANGED <<envVars, moreVars, tarVars, cpVars, xConcurrency, xFileList, xTaskChan, xSendIdx,
                   xChanClosed, xPc, xItem, xProcessed, xFailed, xAttempts, dest>>

\* one iteration of the phase-1 loop: tarReader.Next(), normalization, the
\* manifest test, reading or discarding the content, fileDataMap[path] = entry
UntarReadEntry ==
    /\ xMain = "read"
    /\ readPos <= Len(tarFile)
    /\ LET header == tarFile[readPos]
           normalizedPath == NormalizeName(header.name)
           content == ContentAt(readPos)
       IN  IF header.k # "hdr" \/ Len(content) < header.size
           THEN \* a damaged stream: Next or the content read reports an error
                /\ xMain' = "returned"
                /\ xRet' = "readErr"
                /\ UNCHANGED <<readPos, fileDataMap, manifestContent>>
           ELSE /\ readPos' = NextPos(readPos)
                /\ UNCHANGED <<xMain, xRet>>
                /\ IF IsManifestEntry(normalizedPath)
                   THEN /\ manifestContent' = [found |-> TRUE, text |-> content]
                        /\ UNCHANGED fileDataMap
                   ELSE /\ fileDataMap' =
                              Put(fileDataMap, normalizedPath,
                                  FileEntry(header, IF header.typ = TypeReg
                                                    THEN content ELSE <<>>))
                        /\ UNCHANGED manifestContent
    /\ UNCHANGED <<envVars, moreVars, tarVars, cpVars, xConcurrency, xFileList, xTaskChan, xSendIdx,
                   xChanClosed, xPc, xItem, xProcessed, xFailed, xAttempts, dest>>

\* io.EOF: the manifest check, parseManifestContent, the empty-list check
UntarParse ==
    /\ xMain = "read"
    /\ readPos > Len(tarFile)
    /\ IF ~manifestContent.found
       THEN /\ xMain' = "returned"
            /\ xRet' = "noManifest"
            /\ UNCHANGED xFileList
       ELSE LET list == parseManifestContent(manifestContent.text)
            IN  /\ xFileList' = list
                /\ IF Len(list) = 0
                   THEN xMain' = "returned" /\ xRet' = "emptyManifest"
                   ELSE xMain' = "precreate" /\ UNCHANGED xRet
    /\ UNCHANGED <<envVars, moreVars, tarVars, cpVars, xConcurrency, readPos, fileDataMap,
                   manifestContent, xTaskChan, xSendIdx, xChanClosed, xPc, xItem,
                   xProcessed, xFailed, xAttempts, dest>>

\* variant: every directory entry of the archive is pre-created, named by the
\* Manifest or not
PrecreateDirSetEveryDirectory ==
    UNION {Ancestors(xFileList[i]) :
           i \in {j \in 1..Len(xFileList) : xFileList[j] \in DOMAIN fileDataMap}}
      \cup {p \in DOMAIN fileDataMap : fileDataMap[p].header.typ = TypeDir}

\* variant: only the ancestors are pre-created, not the directory entries
PrecreateDirSetAncestorsOnly ==
    UNION {Ancestors(xFileList[i]) :
           i \in {j \in 1..Len(xFileList) : xFileList[j] \in DOMAIN fileDataMap}}

\* the directories to pre-create: the ancestors of every manifest path that has
\* an entry, and the path itself when its entry is a directory
PrecreateDirSet ==
    UNION {Ancestors(xFileList[i]) \cup
             (IF fileDataMap[xFileList[i]].header.typ = TypeDir
              THEN {xFileList[i]} ELSE {}) :
           i \in {j \in 1..Len(xFileList) : xFileList[j] \in DOMAIN fileDataMap}}

RECURSIVE MkdirAllEach(_, _)
MkdirAllEach(t, dirs) ==
    IF dirs = {} THEN t
    ELSE LET d == CHOOSE x \in dirs : TRUE
         IN  MkdirAllEach(MkdirAll(t, JoinRoot(d), {"ur", "uw", "ux"}), dirs \ {d})

\* for dir := range dirSet { os.MkdirAll(filepath.Join(destDir, dir), 0755) }:
\* map order; the first failure returns
UntarPrecreate ==
    /\ xMain = "precreate"
    /\ LET dirSet == PrecreateDirSet
           bad == {d \in dirSet : MkdirAllFails(dest, JoinRoot(d))}
       IN  IF bad = {}
           THEN /\ dest' = MkdirAllEach(dest, dirSet)
                /\ xMain' = "send"
                /\ UNCHANGED xRet
           ELSE \E made \in SUBSET (dirSet \ bad) :
                /\ dest' = MkdirAllEach(dest, made)
                /\ xMain' = "returned"
                /\ xRet' = "mkdirErr"
    /\ xAttempts' = [q \in SeqRange(xFileList) |-> [att |-> 0, fail |-> 0]]
    /\ UNCHANGED <<envVars, moreVars, tarVars, cpVars, xConcurrency, readPos, fileDataMap,
                   manifestContent, xFileList, xTaskChan, xSendIdx, xChanClosed,
                   xPc, xItem, xProcessed, xFailed>>

\* for _, relPath := range fileList { taskChan <- relPath }
UntarSend ==
    /\ xMain = "send"
    /\ xSendIdx <= Len(xFileList)
    /\ Len(xTaskChan) < xConcurrency * 2
    /\ xTaskChan' = Append(xTaskChan, xFileList[xSendIdx])
    /\ xSendIdx' = xSendIdx + 1
    /\ UNCHANGED <<envVars, moreVars, tarVars, cpVars, xConcurrency, xMain, readPos, fileDataMap,
                   manifestContent, xFileList, xChanClosed, xPc, xItem, xProcessed,
                   xFailed, xAttempts, xRet, dest>>

\* close(taskChan)
UntarClose ==
    /\ xMain = "send"
    /\ xSendIdx > Len(xFileList)
    /\ xChanClosed' = TRUE
    /\ xMain' = "wait"
    /\ UNCHANGED <<envVars, moreVars, tarVars, cpVars, xConcurrency, readPos, fileDataMap,
                   manifestContent, xFileList, xTaskChan, xSendIdx, xPc, xItem,
                   xProcessed, xFailed, xAttempts, xRet, dest>>

\* wg.Wait(); if failedFiles > 0 return error; return nil
UntarFinish ==
    /\ xMain = "wait"
    /\ \A w \in 1..xConcurrency : xPc[w] = "exit"
    /\ xMain' = "returned"
    /\ xRet' = IF xFailed > 0 THEN "failed" ELSE "ok"
    /\ UNCHANGED <<envVars, moreVars, tarVars, cpVars, xConcurrency, readPos, fileDataMap,
                   manifestContent, xFileList, xTaskChan, xSendIdx, xChanClosed,
                   xPc, xItem, xProcessed, xFailed, xAttempts, dest>>

\* for relPath := range taskChan (workers start after the pre-creation)
XwRecv(w) ==
    /\ xMain \in {"send", "wait"}
    /\ xPc[w] = "recv"
    /\ xTaskChan # <<>>
    /\ xItem' = [xItem EXCEPT ![w] = Head(xTaskChan)]
    /\ xTaskChan' = Tail(xTaskChan)
    /\ xAttempts' = [xAttempts EXCEPT ![Head(xTaskChan)].att = @ + 1]
    /\ xPc' = [xPc EXCEPT ![w] = "write"]
    /\ UNCHANGED <<envVars, moreVars, tarVars, cpVars, xConcurrency, xMain, readPos, fileDataMap,
                   manifestContent, xFileList, xSendIdx, xChanClosed, xProcessed,
                   xFailed, xRet, dest>>

XwExit(w) ==
    /\ xMain \in {"send", "wait"}
    /\ xPc[w] = "recv"
    /\ xTaskChan = <<>>
    /\ xChanClosed
    /\ xPc' = [xPc EXCEPT ![w] = "exit"]
    /\ UNCHANGED <<envVars, moreVars, tarVars, cpVars, xConcurrency, xMain, readPos, fileDataMap,
                   manifestContent, xFileList, xTaskChan, xSendIdx, xChanClosed,
                   xItem, xProcessed, xFailed, xAttempts, xRet, dest>>

\* variant: a worker that skips a path without a buffered entry silently
XwWriteSkipAbsent(w) ==
    /\ xPc[w] = "write"
    /\ xPc' = [xPc EXCEPT ![w] = "recv"]
    /\ xProcessed' = xProcessed + 1
    /\ IF xItem[w] \notin DOMAIN fileDataMap
       THEN UNCHANGED <<xFailed, xAttempts, dest>>
       ELSE LET r == writeFileEntry(dest, xItem[w], fileDataMap[xItem[w]])
            IN  /\ dest' = r.tree
                /\ xFailed' = IF r.err # None THEN xFailed + 1 ELSE xFailed
                /\ xAttempts' = IF r.err # None
                                THEN [xAttempts EXCEPT ![xItem[w]].fail = @ + 1]
                                ELSE xAttempts
    /\ UNCHANGED <<envVars, moreVars, tarVars, cpVars, xConcurrency, xMain, readPos, fileDataMap,
                   manifestContent, xFileList, xTaskChan, xSendIdx, xChanClosed,
                   xItem, xRet>>

\* the loop body: the fileDataMap lookup, writeFileEntry, the counters
XwWrite(w) ==
    /\ xPc[w] = "write"
    /\ xPc' = [xPc EXCEPT ![w] = "recv"]
    /\ xProcessed' = xProcessed + 1
    /\ IF xItem[w] \notin DOMAIN fileDataMap
       THEN /\ xFailed' = xFailed + 1
            /\ xAttempts' = [xAttempts EXCEPT ![xItem[w]].fail = @ + 1]
            /\ UNCHANGED dest
       ELSE LET r == writeFileEntry(dest, xItem[w], fileDataMap[xItem[w]])
            IN  /\ dest' = r.tree
                /\ xFailed' = IF r.err # None THEN xFailed + 1 ELSE xFailed
                /\ xAttempts' = IF r.err # None
                                THEN [xAttempts EXCEPT ![xItem[w]].fail = @ + 1]
                                ELSE xAttempts
    /\ UNCHANGED <<envVars, moreVars, tarVars, cpVars, xConcurrency, xMain, readPos, fileDataMap,
                   manifestContent, xFileList, xTaskChan, xSendIdx, xChanClosed,
                   xItem, xRet>>

UntarNext ==
    \/ UntarReadEntry
    \/ UntarParse
    \/ UntarPrecreate
    \/ UntarSend
    \/ UntarClose
    \/ UntarFinish
    \/ \E w \in 1..xConcurrency : XwRecv(w)
    \/ \E w \in 1..xConcurrency : XwExit(w)
    \/ \E w \in 1..xConcurrency : XwWrite(w)

(***************************************************************************)
(* The cp command: precreateDirectories, copyFilesParallel and copyFile    *)
(* over the destination directory destDir.                                 *)
(***************************************************************************)
CpIdle ==
    /\ cFileList = <<>>
    /\ cConcurrency = 1
    /\ cMain = "idle"
    /\ cTaskChan = <<>>
    /\ cSendIdx = 1
    /\ cChanClosed = FALSE
    /\ cPc = [w \in 1..1 |-> "recv"]
    /\ cItem = [w \in 1..1 |-> <<>>]
    /\ dirCache = {}
    /\ copiedFiles = 0
    /\ cFailed = 0
    /\ cAttempts = [q \in {} |-> [att |-> 0, fail |-> 0]]
    /\ cRet = "running"
    /\ destDir = EmptyTree
    /\ readFault = {}
    /\ writeFault = {}

\* byte order of the characters that occur in paths
Alphabet == <<".", "/", "a", "b", "c", "d", "e", "f", "g", "l", "m", "p">>

Rank(ch) == CHOOSE i \in 1..Len(Alphabet) : Alphabet[i] = ch

\* Go's s < t on strings
RECURSIVE StrLess(_, _)
StrLess(s, t) ==
    IF t = <<>> THEN FALSE
    ELSE IF s = <<>> THEN TRUE
    ELSE IF Head(s) = Head(t) THEN StrLess(Tail(s), Tail(t))
    ELSE Rank(Head(s)) < Rank(Head(t))

\* the order the insertion sort establishes: by length, then by byte order
DirBefore(d1, d2) ==
    \/ Len(d1) < Len(d2)
    \/ Len(d1) = Len(d2) /\ StrLess(d1, d2)

RECURSIVE SortDirs(_)
SortDirs(dirs) ==
    IF dirs = {} THEN <<>>
    ELSE LET first == CHOOSE d \in dirs : \A e \in dirs \ {d} : DirBefore(d, e)
         IN  <<first>> \o SortDirs(dirs \ {first})

\* dirSet of precreateDirectories: filepath.Dir of every path, "." left out
CpDirSet(list) == {Dir(list[i]) : i \in 1..Len(list)} \ {Dot, <<>>}

\* for _, dir := range dirs { os.MkdirAll(fullPath, 0755) }, the first
\* failure returns
RECURSIVE MkdirAllInOrder(_, _)
MkdirAllInOrder(t, dirs) ==
    IF dirs = <<>> THEN Result(None, t)
    ELSE IF MkdirAllFails(t, JoinRoot(Head(dirs))) THEN Result("mkdir", t)
    ELSE MkdirAllInOrder(MkdirAll(t, JoinRoot(Head(dirs)), {"ur", "uw", "ux"}),
                         Tail(dirs))

precreateDirectories(t, list) == MkdirAllInOrder(t, SortDirs(CpDirSet(list)))

\* cpCmd.Run up to the start of the workers
CpStart(list, conc) ==
    /\ cFileList = list
    /\ cConcurrency = conc
    /\ cMain = "precreate"
    /\ cTaskChan = <<>>
    /\ cSendIdx = 1
    /\ cChanClosed = FALSE
    /\ cPc = [w \in 1..conc |-> "recv"]
    /\ cItem = [w \in 1..conc |-> <<>>]
    /\ dirCache = {}
    /\ copiedFiles = 0
    /\ cFailed = 0
    /\ cAttempts = [q \in SeqRange(list) |-> [att |-> 0, fail |-> 0]]
    /\ cRet = "running"
    /\ destDir = EmptyTree

\* precreateDirectories(absDestDir, fileList); a failure only prints a warning
CpPrecreate ==
    /\ cMain = "precreate"
    /\ destDir' = precreateDirectories(destDir, cFileList).tree
    /\ cMain' = "send"
    /\ UNCHANGED <<envVars, moreVars, tarVars, untarVars, cFileList, cConcurrency, cTaskChan,
                   cSendIdx, cChanClosed, cPc, cItem, dirCache, copiedFiles, cFailed,
                   cAttempts, cRet>>

\* taskChan <- relPath, blocking while the channel holds concurrency*2 items
CpSend ==
    /\ cMain = "send"
    /\ cSendIdx <= Len(cFileList)
    /\ Len(cTaskChan) < cConcurrency * 2
    /\ cTaskChan' = Append(cTaskChan, cFileList[cSendIdx])
    /\ cSendIdx' = cSendIdx + 1
    /\ UNCHANGED <<envVars, moreVars, tarVars, untarVars, cFileList, cConcurrency, cMain,
                   cChanClosed, cPc, cItem, dirCache, copiedFiles, cFailed, cAttempts,
                   cRet, destDir>>

\* close(taskChan)
CpClose ==
    /\ cMain = "send"
    /\ cSendIdx > Len(cFileList)
    /\ cChanClosed' = TRUE
    /\ cMain' = "wait"
    /\ UNCHANGED <<envVars, moreVars, tarVars, untarVars, cFileList, cConcurrency, cTaskChan,
                   cSendIdx, cPc, cItem, dirCache, copiedFiles, cFailed, cAttempts,
                   cRet, destDir>>

\* wg.Wait() and the final result
CpFinish ==
    /\ cMain = "wait"
    /\ \A w \in 1..cConcurrency : cPc[w] = "exit"
    /\ cRet' = IF cFailed > 0 THEN "failed" ELSE "ok"
    /\ cMain' = "returned"
    /\ UNCHANGED <<envVars, moreVars, tarVars, untarVars, cFileList, cConcurrency, cTaskChan,
                   cSendIdx, cChanClosed, cPc, cItem, dirCache, copiedFiles, cFailed,
                   cAttempts, destDir>>

\* for relPath := range taskChan
CwRecv(w) ==
    /\ cMain \in {"send", "wait"}
    /\ cPc[w] = "recv"
    /\ cTaskChan # <<>>
    /\ cItem' = [cItem EXCEPT ![w] = Head(cTaskChan)]
    /\ cTaskChan' = Tail(cTaskChan)
    /\ cAttempts' = [cAttempts EXCEPT ![Head(cTaskChan)].att = @ + 1]
    /\ cPc' = [cPc EXCEPT ![w] = "load"]
    /\ UNCHANGED <<envVars, moreVars, tarVars, untarVars, cFileList, cConcurrency, cMain,
                   cSendIdx, cChanClosed, dirCache, copiedFiles, cFailed, cRet,
                   destDir>>

CwExit(w) ==
    /\ cMain \in {"send", "wait"}
    /\ cPc[w] = "recv"
    /\ cTaskChan = <<>>
    /\ cChanClosed
    /\ cPc' = [cPc EXCEPT ![w] = "exit"]
    /\ UNCHANGED <<envVars, moreVars, tarVars, untarVars, cFileList, cConcurrency, cMain,
                   cTaskChan, cSendIdx, cChanClosed, cItem, dirCache, copiedFiles,
                   cFailed, cAttempts, cRet, destDir>>

\* destDir := filepath.Dir(destPath), relative to the destination root
DestDirOf(relPath) == Dir(JoinRoot(relPath))

\* dirCache.Load(destDir)
CwLoad(w) ==
    /\ cPc[w] = "load"
    /\ cPc' = [cPc EXCEPT ![w] = IF DestDirOf(cItem[w]) \in dirCache
                                 THEN "open" ELSE "store"]
    /\ UNCHANGED <<envVars, moreVars, tarVars, untarVars, cFileList, cConcurrency, cMain,
                   cTaskChan, cSendIdx, cChanClosed, cItem, dirCache, copiedFiles,
                   cFailed, cAttempts, cRet, destDir>>

\* variant of CwLoadOrStore: a plain Store, the creation follows in any case
CwStoreAlways(w) ==
    /\ cPc[w] = "store"
    /\ dirCache' = dirCache \cup {DestDirOf(cItem[w])}
    /\ cPc' = [cPc EXCEPT ![w] = "mkdir"]
    /\ UNCHANGED <<envVars, moreVars, tarVars, untarVars, cFileList, cConcurrency, cMain,
                   cTaskChan, cSendIdx, cChanClosed, cItem, copiedFiles, cFailed,
                   cAttempts, cRet, destDir>>

\* dirCache.LoadOrStore(destDir, true)
CwLoadOrStore(w) ==
    /\ cPc[w] = "store"
    /\ IF DestDirOf(cItem[w]) \in dirCache
       THEN /\ cPc' = [cPc EXCEPT ![w] = "open"]
            /\ UNCHANGED dirCache
       ELSE /\ dirCache' = dirCache \cup {DestDirOf(cItem[w])}
            /\ cPc' = [cPc EXCEPT ![w] = "mkdir"]
    /\ UNCHANGED <<envVars, moreVars, tarVars, untarVars, cFileList, cConcurrency, cMain,
                   cTaskChan, cSendIdx, cChanClosed, cItem, copiedFiles, cFailed,
                   cAttempts, cRet, destDir>>

\* variant: a worker that returns from its loop when a copy fails
CwCountFailFast(w, err) ==
    /\ cFailed' = IF err = None THEN cFailed ELSE cFailed + 1
    /\ cAttempts' = [cAttempts EXCEPT ![cItem[w]].fail =
                         IF err = None THEN @ ELSE @ + 1]
    /\ copiedFiles' = copiedFiles + 1
    /\ cPc' = [cPc EXCEPT ![w] = IF err = None THEN "recv" ELSE "exit"]

\* variant: a worker that only warns when the source file does not exist
CwCountSkipMissing(w, err) ==
    /\ cFailed' = IF err \in {None, "open"} THEN cFailed ELSE cFailed + 1
    /\ cAttempts' = [cAttempts EXCEPT ![cItem[w]].fail =
                         IF err \in {None, "open"} THEN @ ELSE @ + 1]
    /\ copiedFiles' = copiedFiles + 1
    /\ cPc' = [cPc EXCEPT ![w] = "recv"]

\* the worker's bookkeeping after copyFile returned err for its item: both
\* branches of the os.IsNotExist test count the failure, copiedFiles is
\* incremented in every case
CwCount(w, err) ==
    /\ cFailed' = IF err = None THEN cFailed ELSE cFailed + 1
    /\ cAttempts' = [cAttempts EXCEPT ![cItem[w]].fail =
                         IF err = None THEN @ ELSE @ + 1]
    /\ copiedFiles' = copiedFiles + 1
    /\ cPc' = [cPc EXCEPT ![w] = "recv"]

\* os.MkdirAll(destDir, 0755); on failure dirCache.Delete(destDir) and
\* copyFile returns the error
CwMkdirAll(w) ==
    /\ cPc[w] = "mkdir"
    /\ IF MkdirAllFails(destDir, DestDirOf(cItem[w]))
       THEN /\ dirCache' = dirCache \ {DestDirOf(cItem[w])}
            /\ CwCount(w, "mkdir")
            /\ UNCHANGED destDir
       ELSE /\ destDir' = MkdirAll(destDir, DestDirOf(cItem[w]), {"ur", "uw", "ux"})
            /\ cPc' = [cPc EXCEPT ![w] = "open"]
            /\ UNCHANGED <<dirCache, copiedFiles, cFailed, cAttempts>>
    /\ UNCHANGED <<envVars, moreVars, tarVars, untarVars, cFileList, cConcurrency, cMain,
                   cTaskChan, cSendIdx, cChanClosed, cItem, cRet>>

\* os.Create(destPath): a new file gets 0666 less the umask, an existing one
\* is truncated
Create(t, target) ==
    IF target \in DOMAIN t
    THEN [t EXCEPT ![target].content = <<>>]
    ELSE Put(t, target, Node(TypeReg, <<>>, {"ur", "uw", "gw"} \ Umask, <<>>))

CreateFails(t, target) ==
    \/ target \in createFault
    \/ ~ParentExists(t, target)
    \/ target \in DOMAIN t /\ t[target].typ = TypeDir

\* the outcomes of copyFile from os.Open on: the error it returns and the
\* destination it leaves.  A rejected write is either the error of io.Copy,
\* when the bytes reach the file while it runs, or the error of the deferred
\* bufferedWriter.Flush() / destFile.Close(), when they are still buffered;
\* the deferred errors are dropped.
CopyOutcomes(t, relPath) ==
    LET target == JoinRoot(relPath)
        created == Create(t, target)
        full == [created EXCEPT ![target].content = SrcContent(relPath)]
    IN  IF relPath \in missing THEN {Result("open", t)}
        ELSE IF CreateFails(t, target) THEN {Result("create", t)}
        ELSE IF relPath \in readFault THEN {Result("copy", created)}
        ELSE IF relPath \in writeFault /\ SrcContent(relPath) # <<>>
             THEN {Result("copy", created), Result(None, created)}
        ELSE {Result(None, full)}

\* the rest of copyFile (os.Open, os.Create, io.Copy, the deferred Flush and
\* Close) and the worker's counting
CwCopy(w) ==
    /\ cPc[w] = "open"
    /\ \E r \in CopyOutcomes(destDir, cItem[w]) :
          /\ destDir' = r.tree
          /\ CwCount(w, r.err)
    /\ UNCHANGED <<envVars, moreVars, tarVars, untarVars, cFileList, cConcurrency, cMain,
                   cTaskChan, cSendIdx, cChanClosed, cItem, dirCache, cRet>>

CpNext ==
    \/ CpPrecreate
    \/ CpSend
    \/ CpClose
    \/ CpFinish
    \/ \E w \in 1..cConcurrency : CwRecv(w)
    \/ \E w \in 1..cConcurrency : CwExit(w)
    \/ \E w \in 1..cConcurrency : CwLoad(w)
    \/ \E w \in 1..cConcurrency : CwLoadOrStore(w)
    \/ \E w \in 1..cConcurrency : CwMkdirAll(w)
    \/ \E w \in 1..cConcurrency : CwCopy(w)

(***************************************************************************)
(* The commands modelled further down, before they are started.            *)
(***************************************************************************)
NoChunks == [panic |-> FALSE, chunks |-> <<>>]

FnIdle ==
    /\ sFileList = <<>>
    /\ sCount = 0
    /\ sDone = {}
    /\ sChunks = NoChunks
    /\ sText = <<>>
    /\ sParsed = <<>>
    /\ sRead = <<>>

GenIdle ==
    /\ gTree = [q \in {} |-> [typ |-> None, target |-> <<>>]]
    /\ dirPathAbs = TRUE
    /\ gMain = "idle"
    /\ gStack = <<>>
    /\ visited = {}
    /\ gOut = <<>>

\* a file handed from a reader worker to the writer goroutine
FileData(relPath, content, header, err) ==
    [relPath |-> relPath, content |-> content, header |-> header, err |-> err]

NoData == FileData(<<>>, <<>>, NoHeader, None)

\* os.Create(outputFile): the output file is open and nothing has reached it
OutOpen == outFile = "open"

ChanIdle ==
    /\ dataChan = <<>>
    /\ dataChanClosed = FALSE
    /\ writerPc = "recv"
    /\ writerData = NoData
    /\ processedCount = 0

MultiIdle ==
    /\ mOp = "idle"
    /\ mParts = <<>>
    /\ mMain = "idle"
    /\ mPc = <<>>
    /\ mIdx = <<>>
    /\ mSawErr = <<>>
    /\ mErr = <<>>
    /\ mTmp = <<>>
    /\ mMu = 0
    /\ failedTars = 0
    /\ mRet = "running"
    /\ mergeDest = [q \in {} |-> [content |-> <<>>, owner |-> 0, claims |-> <<>>]]
    /\ partFault = {}
    /\ tarFlavour = "gnu"

\* the Manifest of the archive build: the first n files of the source tree
TarManifests == {[i \in 1..n |-> BasePath(i)] : n \in 1..MaxTarFiles}

TarInit ==
    /\ \E list \in TarManifests, conc \in 1..MaxConc : TarStart(list, conc)
    /\ missing \in SUBSET SeqRange(fileList)
    /\ mkdirFault = {}
    /\ createFault = {}
    /\ UntarIdle
    /\ CpIdle
    /\ FnIdle /\ GenIdle /\ MultiIdle /\ ChanIdle /\ OutOpen

SpecTar == TarInit /\ [][TarNext]_vars

(***************************************************************************)
(* Round trip: createTarParallel over the source tree, then                *)
(* extractTarParallel of the archive it wrote into an empty destination.   *)
(***************************************************************************)
\* regular files of the source tree used by the round trip
RTPaths == {<<"a">>, <<"c">>, <<"d", "/", "b">>, <<"d", "/", MN>>}

DistinctSeqs(S, n) ==
    {f \in [1..n -> S] : \A i, j \in 1..n : i # j => f[i] # f[j]}

RTManifests == UNION {DistinctSeqs(RTPaths, n) : n \in 1..MaxRTFiles}

\* the untar command runs extractTarParallel on the archive file
RtExtract ==
    /\ tarMain = "returned"
    /\ tarRet = "ok"
    /\ xMain = "idle"
    /\ xMain' = "read"
    /\ \E conc \in 1..MaxConc :
          /\ xConcurrency' = conc
          /\ xPc' = [w \in 1..conc |-> "recv"]
          /\ xItem' = [w \in 1..conc |-> <<>>]
    /\ UNCHANGED <<envVars, moreVars, tarVars, cpVars, readPos, fileDataMap, manifestContent,
                   xFileList, xTaskChan, xSendIdx, xChanClosed, xProcessed, xFailed,
                   xAttempts, xRet, dest>>

RtInit ==
    /\ \E list \in RTManifests, conc \in 1..MaxConc : TarStart(list, conc)
    /\ missing \in SUBSET SeqRange(fileList)
    /\ mkdirFault = {}
    /\ createFault = {}
    /\ UntarIdle
    /\ CpIdle
    /\ FnIdle /\ GenIdle /\ MultiIdle /\ ChanIdle /\ OutOpen

RtNext ==
    \/ TarNext
    \/ RtExtract
    \/ UntarNext

SpecRT == RtInit /\ [][RtNext]_vars

\* the regular file at path p of the destination equals the source file
SameAsSource(p) ==
    /\ JoinRoot(p) \in DOMAIN dest
    /\ dest[JoinRoot(p)].typ = TypeReg
    /\ dest[JoinRoot(p)].content = SrcContent(p)
    /\ dest[JoinRoot(p)].mode = SrcMode(p) \cap PermBits

\* C2: after a successful build and the extraction of its archive, every
\* Manifest path is a destination file with the content and permission bits
\* of the source file
C2_RoundTrip ==
    (tarRet = "ok" /\ xMain = "returned") =>
        \A i \in 1..Len(fileList) : SameAsSource(fileList[i])

(***************************************************************************)
(* extractTarParallel on an arbitrary archive file.                        *)
(***************************************************************************)
RegEntry(name, content, mode) ==
    <<HdrFrame(name, TypeReg, mode, Len(content), <<>>), DataFrame(content)>>

OtherEntry(name, typ, link) ==
    <<HdrFrame(name, typ, {"ur", "uw", "ux"}, 0, link)>>

\* the entries an archive is made of, each as its frames
UntarEntries ==
    { RegEntry(<<"a">>, <<"A1">>, {"ur", "uw", "gw"}),
      RegEntry(<<".", "/", "a">>, <<"A2">>, {"ur"}),
      RegEntry(<<"d", "/", "b">>, <<"B">>, {"ur", "uw", "ux", "c_ISUID"}),
      RegEntry(<<"d", "/", MN>>, <<".", "/", "a", "\n">>, {"ur", "uw"}),
      OtherEntry(<<"d">>, TypeDir, <<>>),
      OtherEntry(<<"s">>, TypeSymlink, <<"a">>),
      OtherEntry(<<"h">>, TypeLink, <<"a">>),
      OtherEntry(<<"p">>, TypeFifo, <<>>) }

\* the paths an embedded manifest may list (z has no entry in any archive)
UntarPaths ==
    {<<"a">>, <<"d", "/", "b">>, <<"d">>, <<"s">>, <<"h">>, <<"p">>, <<"z">>}

RECURSIVE Flatten(_)
Flatten(ss) == IF ss = <<>> THEN <<>> ELSE Head(ss) \o Flatten(Tail(ss))

InsertAt(seq, i, x) == SubSeq(seq, 1, i - 1) \o <<x>> \o SubSeq(seq, i, Len(seq))

\* the embedded manifest entry listing the paths of list
ManifestEntry(list) == RegEntry(manifestName, ManifestText(list), {"ur", "uw"})

UntarManifests == UNION {DistinctSeqs(UntarPaths, n) : n \in 0..MaxManifest}

\* an archive: up to MaxEntries distinct entries in any order, with no
\* manifest entry or with one at any position
UntarArchives ==
    LET bodies == UNION {DistinctSeqs(UntarEntries, n) : n \in 0..MaxEntries}
    IN  {Flatten(b) : b \in bodies} \cup
        UNION {{Flatten(InsertAt(b, i, ManifestEntry(m))) :
                   i \in 1..(Len(b) + 1), m \in UntarManifests} : b \in bodies}

\* the state after a finished build, for runs that start from an archive file
TarDone(archive) ==
    /\ fileList = <<>>
    /\ concurrency = 1
    /\ taskChan = <<>>
    /\ sendIdx = 1
    /\ chanClosed = TRUE
    /\ tarMain = "returned"
    /\ wPc = [w \in 1..1 |-> "exit"]
    /\ wItem = [w \in 1..1 |-> <<>>]
    /\ wHeader = [w \in 1..1 |-> NoHeader]
    /\ mu = 0
    /\ writeErrMu = 0
    /\ writeErr = NoErr
    /\ processedFiles = 0
    /\ failedFiles = 0
    /\ tarFile = archive
    /\ tarRet = "ok"

UntarStart(conc) ==
    /\ xConcurrency = conc
    /\ xMain = "read"
    /\ readPos = 1
    /\ fileDataMap = NoEntries
    /\ manifestContent = NoManifest
    /\ xFileList = <<>>
    /\ xTaskChan = <<>>
    /\ xSendIdx = 1
    /\ xChanClosed = FALSE
    /\ xPc = [w \in 1..conc |-> "recv"]
    /\ xItem = [w \in 1..conc |-> <<>>]
    /\ xProcessed = 0
    /\ xFailed = 0
    /\ xAttempts = [q \in {} |-> [att |-> 0, fail |-> 0]]
    /\ xRet = "running"
    /\ dest = EmptyTree

UntarInit ==
    /\ \E archive \in UntarArchives : TarDone(archive)
    /\ \E conc \in 1..MaxConc : UntarStart(conc)
    /\ missing = {}
    /\ \E fault \in {{}, {<<"d">>}, {<<"a">>}} :
          /\ mkdirFault = fault \cap {<<"d">>}
          /\ createFault = fault \cap {<<"a">>}
    /\ CpIdle
    /\ FnIdle /\ GenIdle /\ MultiIdle /\ ChanIdle /\ OutOpen

SpecUntar == UntarInit /\ [][UntarNext]_vars

(***************************************************************************)
(* Claims about extractTarParallel (SpecUntar).                            *)
(***************************************************************************)
\* the archive has an entry at the reserved manifest name
HasReservedEntry ==
    \E j \in 1..Len(tarFile) :
        tarFile[j].k = "hdr" /\ NormalizeName(tarFile[j].name) = manifestName

\* C5: for an archive with no entry at the reserved manifest name the call
\* returns an error and has created nothing under the destination
C5_NoManifestNothingCreated ==
    (xMain = "returned" /\ ~HasReservedEntry) =>
        xRet # "ok" /\ dest = EmptyTree

\* number of Manifest positions that hold path p
Occurrences(list, p) == Cardinality({i \in 1..Len(list) : list[i] = p})

AllAttempted ==
    /\ xProcessed = Len(xFileList)
    /\ \A i \in 1..Len(xFileList) :
          xAttempts[xFileList[i]].att = Occurrences(xFileList, xFileList[i])

\* C6: once a non-empty Manifest was recovered, a call that reports
\* failure has counted a per-file failure and has attempted every Manifest path
C6_FailureOnlyPerFile ==
    (xMain = "returned" /\ Len(xFileList) > 0 /\ xRet # "ok") =>
        xFailed > 0 /\ AllAttempted

\* the entry buffered for p has reached the destination
Materialized(p) ==
    LET entry == fileDataMap[p]
        target == JoinRoot(p)
    IN  /\ target \in DOMAIN dest
        /\ dest[target].typ = entry.header.typ
        /\ entry.header.typ = TypeReg =>
              /\ dest[target].content = entry.content
              /\ dest[target].mode = SyscallPerm(entry.header.mode)
        /\ entry.header.typ = TypeSymlink => dest[target].link = entry.header.link

\* C7: when the workers have run and the call has returned, every Manifest
\* path with no buffered entry was counted as exactly one failure, the call
\* reports the per-file failure (not a fatal error), every path was attempted,
\* and every Manifest path whose entry is a regular file, directory or symlink
\* that the destination accepts is materialized
C7_AbsentEntryCounted ==
    (xMain = "returned" /\ xRet \in {"ok", "failed"}) =>
        /\ AllAttempted
        /\ \A i \in 1..Len(xFileList) :
              LET p == xFileList[i]
              IN  IF p \notin DOMAIN fileDataMap
                  THEN /\ xAttempts[p].fail = Occurrences(xFileList, p)
                       /\ xRet = "failed"
                  ELSE (/\ fileDataMap[p].header.typ \in {TypeReg, TypeDir, TypeSymlink}
                        /\ JoinRoot(p) \notin createFault)
                           => Materialized(p) /\ xAttempts[p].fail = 0
        /\ xFailed >= Cardinality({i \in 1..Len(xFileList) :
                                     xFileList[i] \notin DOMAIN fileDataMap})

C7_Witness ==
    /\ xMain = "returned"
    /\ xRet = "failed"
    /\ xConcurrency = 2
    /\ xFileList = <<<<"z">>, <<"d", "/", "b">>>>
    /\ <<"d", "/", "b">> \in DOMAIN fileDataMap
    /\ Materialized(<<"d", "/", "b">>)
    /\ xFailed = 1

(***************************************************************************)
(* Claims about the archive build (SpecTar).                               *)
(***************************************************************************)
\* C1: the archive build always returns: in every state in which
\* createTarParallel has not returned, some goroutine of the call can take a
\* step (the dispatcher can send or close, a worker can proceed, or the join
\* can complete)
C1_BuildReturns == tarMain = "returned" \/ ENABLED TarNext

\* positions of the header frames of the archive that carry the name p
HeadersOf(p) == {j \in 1..Len(tarFile) : tarFile[j].k = "hdr" /\ tarFile[j].name = p}

\* the archive holds the reserved-name entry with the Manifest text as its
\* last entry
ManifestAppended ==
    /\ Len(tarFile) >= 2
    /\ tarFile[Len(tarFile) - 1] = ManifestHeader(ManifestText(fileList))
    /\ tarFile[Len(tarFile)] = DataFrame(ManifestText(fileList))

\* C3: once the call has returned with no write-stage error (none
\* recorded by a worker, none while writing the manifest), the Manifest is the
\* final entry of the archive, whatever the count of per-file failures
C3_ManifestAlways ==
    (tarMain = "returned" /\ writeErr = NoErr /\ tarRet # "manifestErr")
        => ManifestAppended

\* the archive holds exactly one entry for p: its header, immediately followed
\* by the complete content of the source file
OneCompleteEntry(p) ==
    /\ Cardinality(HeadersOf(p)) = 1
    /\ \A j \in HeadersOf(p) :
          /\ tarFile[j] = readFileHeaderForTar(p).header
          /\ j < Len(tarFile)
          /\ tarFile[j + 1] = DataFrame(SrcContent(p))

\* C4: when the build has returned without a write-stage error, every Manifest
\* path with no source file was counted as one failure, every item was
\* processed, and every other Manifest path is in the archive as one complete
\* entry
C4_MissingSourceCounted ==
    (tarMain = "returned" /\ writeErr = NoErr) =>
        /\ failedFiles = Cardinality({i \in 1..Len(fileList) : fileList[i] \in missing})
        /\ processedFiles = Len(fileList)
        /\ \A i \in 1..Len(fileList) :
              IF fileList[i] \in missing
              THEN HeadersOf(fileList[i]) = {}
              ELSE OneCompleteEntry(fileList[i])

C4_Witness ==
    /\ tarMain = "returned"
    /\ writeErr = NoErr
    /\ concurrency = 2
    /\ failedFiles = 1
    /\ \E i \in 1..Len(fileList) : fileList[i] \notin missing /\ i > 1
    /\ fileList[1] \in missing


(***************************************************************************)
(* The cp command over a source tree (SpecCp), and with the scheduler's    *)
(* fairness (FairSpecCp): every goroutine that can run is eventually run.  *)
(***************************************************************************)
\* files of the source tree, in tree order
CpBase == <<<<"g">>, <<"e", "/", "b">>, <<"e", "/", "c">>, <<"d", "/", "a">>,
            <<"e", "/", "f">>, <<"b">>>>

\* the Manifest of the copy: a run of files of the source tree
CpManifests == {[i \in 1..n |-> CpBase[i + k]] : n \in 1..MaxCpFiles, k \in 0..1}

NoFault == <<None, None>>

CpInit ==
    /\ \E list \in CpManifests, conc \in 1..MaxConc : CpStart(list, conc)
    /\ missing \in SUBSET SeqRange(cFileList)
    /\ mkdirFault \in {{}, {<<"d">>}}
    /\ \E fault \in {NoFault} \cup (SeqRange(cFileList) \X {"create", "read", "write"}) :
          /\ createFault = IF fault[2] = "create" THEN {JoinRoot(fault[1])} ELSE {}
          /\ readFault = IF fault[2] = "read" THEN {fault[1]} ELSE {}
          /\ writeFault = IF fault[2] = "write" THEN {fault[1]} ELSE {}
    /\ TarDone(<<>>)
    /\ UntarIdle
    /\ FnIdle /\ GenIdle /\ MultiIdle /\ ChanIdle /\ OutOpen

SpecCp == CpInit /\ [][CpNext]_vars

FairSpecCp == CpInit /\ [][CpNext]_vars /\ WF_vars(CpNext)

(***************************************************************************)
(* Claims about the cp command.                                            *)
(***************************************************************************)
CpBusy(w) == cPc[w] \notin {"recv", "exit"}

\* no path is dequeued twice and no two workers hold the same path
CpOwnership ==
    /\ \A p \in DOMAIN cAttempts : cAttempts[p].att <= 1
    /\ \A w1, w2 \in 1..cConcurrency :
          (w1 # w2 /\ CpBusy(w1) /\ CpBusy(w2)) => cItem[w1] # cItem[w2]

\* every path was dequeued once, the queue is closed and empty, every worker
\* has left its loop
CpBatchComplete ==
    /\ \A p \in DOMAIN cAttempts : cAttempts[p].att = 1
    /\ copiedFiles = Len(cFileList)
    /\ cChanClosed /\ cTaskChan = <<>>
    /\ \A w \in 1..cConcurrency : cPc[w] = "exit"

\* steps the call can still take: every step of the call lowers it
CpWorkLeft(w) ==
    CASE cPc[w] = "exit" -> 0
      [] cPc[w] = "recv" -> 1
      [] cPc[w] = "open" -> 2
      [] cPc[w] = "mkdir" -> 3
      [] cPc[w] = "store" -> 4
      [] cPc[w] = "load" -> 5

RECURSIVE SumWorkLeft(_)
SumWorkLeft(n) == IF n = 0 THEN 0 ELSE CpWorkLeft(n) + SumWorkLeft(n - 1)

CpMeasure ==
    (Len(cFileList) + 1 - cSendIdx) * 6 + Len(cTaskChan) * 5
        + SumWorkLeft(cConcurrency)
        + (CASE cMain = "precreate" -> 3
             [] cMain = "send" -> 2
             [] cMain = "wait" -> 1
             [] OTHER -> 0)

\* some step of the call can run: CpPrecreate and the steps of copyFile run
\* whenever their goroutine stands at them
CpCanStep ==
    \/ cMain = "precreate"
    \/ \E w \in 1..cConcurrency : cPc[w] \in {"load", "store", "mkdir", "open"}
    \/ ENABLED \/ CpSend
               \/ CpClose
               \/ CpFinish
               \/ \E w \in 1..cConcurrency : CwRecv(w)
               \/ \E w \in 1..cConcurrency : CwExit(w)

\* C8: copyFilesParallel never fails fast, whatever copies fail: until it has
\* returned some step of the call can always run and every step brings the
\* return nearer, so every fairly scheduled run returns; each Manifest entry
\* is dequeued by exactly one worker, and at the return every entry was
\* attempted, the queue is closed and drained and all workers have exited
C8_NeverFailsFast ==
    /\ [](CpOwnership /\ (cMain = "returned" => CpBatchComplete))
    /\ [](cMain = "returned" \/ CpCanStep)
    /\ [][CpMeasure' < CpMeasure]_vars

\* a run with one worker, more entries than the queue holds and a failure on
\* the first entry has returned
C8_Witness ==
    /\ cMain = "returned"
    /\ cConcurrency = 1
    /\ Len(cFileList) > cConcurrency * 2
    /\ cAttempts[cFileList[1]].fail = 1

CpSameAsSource(p) ==
    /\ JoinRoot(p) \in DOMAIN destDir
    /\ destDir[JoinRoot(p)].typ = TypeReg
    /\ destDir[JoinRoot(p)].content = SrcContent(p)

OnlyMissingSources ==
    mkdirFault = {} /\ createFault = {} /\ readFault = {} /\ writeFault = {}

\* C9: when missing source files are the only trouble, each missing path is
\* counted as one failure and leaves no destination file, every other path
\* is copied with the source's content, the failure count is the number of
\* missing paths and the call fails exactly when there is one
C9_MissingSourceCopy ==
    (cMain = "returned" /\ OnlyMissingSources) =>
        /\ \A p \in DOMAIN cAttempts :
              IF p \in missing
              THEN cAttempts[p].fail = 1 /\ JoinRoot(p) \notin DOMAIN destDir
              ELSE cAttempts[p].fail = 0 /\ CpSameAsSource(p)
        /\ cFailed = Cardinality(missing)
        /\ (cRet = "failed") <=> (missing # {})
        /\ (cRet = "ok") <=> (missing = {})

C9_Witness ==
    /\ cMain = "returned"
    /\ OnlyMissingSources
    /\ cConcurrency > 1
    /\ Cardinality(missing) = 1
    /\ Len(cFileList) > 2
    /\ cRet = "failed"

\* C10: a path that was not counted as a failure has its complete content in
\* the destination file
C10_SuccessMeansComplete ==
    cMain = "returned" =>
        \A p \in DOMAIN cAttempts : cAttempts[p].fail = 0 => CpSameAsSource(p)


(***************************************************************************)
(* The copy with one worker is a function of the Manifest and the          *)
(* environment: copyFile is called once per path, in Manifest order.       *)
(***************************************************************************)
CopyState(t, cache, failed) == [tree |-> t, cache |-> cache, failed |-> failed]

\* one call of copyFile by the only worker, and its counting
SeqCopyFile(st, relPath) ==
    LET d == DestDirOf(relPath)
        made == IF d \in st.cache THEN st.tree
                ELSE MkdirAll(st.tree, d, {"ur", "uw", "ux"})
        r == CHOOSE x \in CopyOutcomes(made, relPath) : TRUE
    IN  IF d \notin st.cache /\ MkdirAllFails(st.tree, d)
        THEN CopyState(st.tree, st.cache, st.failed + 1)
        ELSE CopyState(r.tree, st.cache \cup {d},
                       IF r.err = None THEN st.failed ELSE st.failed + 1)

RECURSIVE SeqCopyAll(_, _)
SeqCopyAll(st, list) ==
    IF list = <<>> THEN st
    ELSE SeqCopyAll(SeqCopyFile(st, Head(list)), Tail(list))

\* the result of precreateDirectories and copyFilesParallel with concurrency 1
SeqCopyResult ==
    SeqCopyAll(CopyState(precreateDirectories(EmptyTree, cFileList).tree, {}, 0),
               cFileList)

\* C11: the copy ends with the destination tree and the failure count of the
\* copy with one worker, for every concurrency and interleaving (in an
\* environment where the outcome of each copyFile call is determined)
C11_ConcurrencyInvariantCopy ==
    (cMain = "returned" /\ writeFault = {}) =>
        /\ destDir = SeqCopyResult.tree
        /\ cFailed = SeqCopyResult.failed


(***************************************************************************)
(* Phase 1 of extractTarParallel as a function of the entries of the       *)
(* archive in stream order.                                                *)
(***************************************************************************)
\* the entries of an archive, each with its frames (header, content)
RECURSIVE ArchiveEntries(_)
ArchiveEntries(archive) ==
    IF archive = <<>> THEN <<>>
    ELSE IF Len(archive) > 1 /\ archive[2].k = "data"
    THEN <<SubSeq(archive, 1, 2)>> \o ArchiveEntries(SubSeq(archive, 3, Len(archive)))
    ELSE <<SubSeq(archive, 1, 1)>> \o ArchiveEntries(Tail(archive))

Collected(map, manifest) == [map |-> map, manifest |-> manifest]

\* the phase-1 loop over the entries es, from the buffered state acc
RECURSIVE CollectEntries(_, _)
CollectEntries(es, acc) ==
    IF es = <<>> THEN acc
    ELSE LET header == Head(es)[1]
             content == IF Len(Head(es)) > 1 THEN Head(es)[2].bytes ELSE <<>>
             normalizedPath == NormalizeName(header.name)
         IN  IF IsManifestEntry(normalizedPath)
             THEN CollectEntries(Tail(es),
                      Collected(acc.map, [found |-> TRUE, text |-> content]))
             ELSE CollectEntries(Tail(es),
                      Collected(Put(acc.map, normalizedPath,
                                    FileEntry(header, IF header.typ = TypeReg
                                                      THEN content ELSE <<>>)),
                                acc.manifest))

\* the orders in which the entries es can stand in a stream
StreamOrders(es) ==
    {[i \in 1..Len(es) |-> es[f[i]]] :
        f \in {g \in [1..Len(es) -> 1..Len(es)] :
                  \A i, j \in 1..Len(es) : i # j => g[i] # g[j]}}

DistinctNormalizedPaths(es) ==
    \A i, j \in 1..Len(es) :
        i # j => NormalizeName(es[i][1].name) # NormalizeName(es[j][1].name)

\* C12: for an archive whose entries have pairwise distinct normalized paths,
\* what phase 1 hands to the rest of the extraction (the buffered entries and
\* the embedded Manifest, the only things the later phases read) is the same
\* for every stream order of these entries, so the extracted tree and the
\* failure count do not depend on the entry order
C12_EntryOrderIrrelevant ==
    (xMain = "returned" /\ xRet # "readErr"
        /\ DistinctNormalizedPaths(ArchiveEntries(tarFile))) =>
        \A es \in StreamOrders(ArchiveEntries(tarFile)) :
            CollectEntries(es, Collected(NoEntries, NoManifest))
                = Collected(fileDataMap, manifestContent)


(***************************************************************************)
(* splitFileList, and the manifest text written by writeManifestToTar and  *)
(* read back by parseManifestContent and by readManifest.                  *)
(***************************************************************************)
\* variant: the remainder goes to the last chunk
SplitLoopRemainderLast(list, count, chunkSize, remainder, i, start) ==
    [k \in 1..count |->
        SubSeq(list, (k - 1) * chunkSize + 1,
               IF k = count THEN Len(list) ELSE k * chunkSize)]

\* variant: every chunk starts at a multiple of chunkSize
SplitLoopFixedStart(list, count, chunkSize, remainder, i, start) ==
    [k \in 1..count |->
        SubSeq(list, (k - 1) * chunkSize + 1,
               k * chunkSize + (IF k - 1 < remainder THEN 1 ELSE 0))]

\* the loop of splitFileList from chunk i on, with start as left by chunk i-1
RECURSIVE SplitLoop(_, _, _, _, _, _)
SplitLoop(list, count, chunkSize, remainder, i, start) ==
    IF i >= count THEN <<>>
    ELSE LET end == start + chunkSize + (IF i < remainder THEN 1 ELSE 0)
         IN  <<SubSeq(list, start + 1, end)>>
                 \o SplitLoop(list, count, chunkSize, remainder, i + 1, end)

\* variant: a count above the length of the list is kept
ClampCountLowOnly(list, count) == IF count <= 0 THEN 1 ELSE count

\* count <= 0 becomes 1, count > len(fileList) becomes len(fileList)
ClampCount(list, count) ==
    LET c == IF count <= 0 THEN 1 ELSE count
    IN  IF c > Len(list) THEN Len(list) ELSE c

\* splitFileList(fileList, count); len(fileList) / count with count = 0 is a
\* run-time panic
splitFileList(list, count) ==
    LET c == ClampCount(list, count)
    IN  IF c = 0 THEN [panic |-> TRUE, chunks |-> <<>>]
        ELSE [panic |-> FALSE,
              chunks |-> SplitLoop(list, c, Len(list) \div c, Len(list) % c, 0, 0)]

\* bufio.Scanner with ScanLines: the text split at "\n", one trailing "\r" of
\* a line dropped, no token after the last "\n"
DropCR(line) ==
    IF line # <<>> /\ line[Len(line)] = "\r" THEN SubSeq(line, 1, Len(line) - 1)
    ELSE line

ScanLines(text) ==
    LET tokens == Split(text, "\n")
        kept == IF tokens # <<>> /\ tokens[Len(tokens)] = <<>>
                THEN SubSeq(tokens, 1, Len(tokens) - 1) ELSE tokens
    IN  [i \in 1..Len(kept) |-> DropCR(kept[i])]

RECURSIVE ReadLines(_)
ReadLines(lines) ==
    IF lines = <<>> THEN <<>>
    ELSE LET line == TrimSpace(Head(lines))
         IN  IF line = <<>> THEN ReadLines(Tail(lines))
             ELSE <<NormalizeName(line)>> \o ReadLines(Tail(lines))

\* readManifest over a file with the given text
readManifest(text) == ReadLines(ScanLines(text))

FnSplit ==
    /\ "split" \notin sDone
    /\ sChunks' = splitFileList(sFileList, sCount)
    /\ sDone' = sDone \cup {"split"}
    /\ UNCHANGED <<envVars, tarVars, untarVars, cpVars, chanVars,
                   genVars, multiVars,
                   sFileList, sCount, sText, sParsed, sRead>>

FnText ==
    /\ "text" \notin sDone
    /\ sText' = ManifestText(sFileList)
    /\ sDone' = sDone \cup {"text"}
    /\ UNCHANGED <<envVars, tarVars, untarVars, cpVars, chanVars,
                   genVars, multiVars,
                   sFileList, sCount, sChunks, sParsed, sRead>>

FnParse ==
    /\ "text" \in sDone /\ "parse" \notin sDone
    /\ sParsed' = parseManifestContent(sText)
    /\ sDone' = sDone \cup {"parse"}
    /\ UNCHANGED <<envVars, tarVars, untarVars, cpVars, chanVars,
                   genVars, multiVars,
                   sFileList, sCount, sChunks, sText, sRead>>

FnRead ==
    /\ "text" \in sDone /\ "read" \notin sDone
    /\ sRead' = readManifest(sText)
    /\ sDone' = sDone \cup {"read"}
    /\ UNCHANGED <<envVars, tarVars, untarVars, cpVars, chanVars,
                   genVars, multiVars,
                   sFileList, sCount, sChunks, sText, sParsed>>

FnNext == FnSplit \/ FnText \/ FnParse \/ FnRead

\* paths of a Manifest: plain ones, and ones with white space, with a newline,
\* with a leading "./" and the empty one
FnPaths ==
    { <<"a">>, <<"d", "/", "b">>, <<"a", " ", "b">>, <<".", "a">>,
      <<"a", " ">>, <<".", "/", "a">>, <<"a", "\n", "b">>, <<>> }

SplitNames == <<"a", "b", "c", "e", "f", "g", "h">>

\* the Manifests: every list of up to MaxFnFiles paths, and the lists of the
\* first n of MaxSplitFiles names
FnManifests ==
    UNION {[1..n -> FnPaths] : n \in 0..MaxFnFiles}
        \cup {[i \in 1..n |-> <<SplitNames[i]>>] : n \in 0..MaxSplitFiles}

FnInit ==
    /\ sFileList \in FnManifests
    /\ sCount \in -1..MaxCount
    /\ sDone = {}
    /\ sChunks = NoChunks
    /\ sText = <<>>
    /\ sParsed = <<>>
    /\ sRead = <<>>
    /\ missing = {} /\ mkdirFault = {} /\ createFault = {}
    /\ TarDone(<<>>)
    /\ UntarIdle
    /\ CpIdle
    /\ GenIdle
    /\ MultiIdle
    /\ ChanIdle /\ OutOpen

SpecFn == FnInit /\ [][FnNext]_vars


(***************************************************************************)
(* Properties of splitFileList.                                            *)
(***************************************************************************)
SplitDone == "split" \in sDone /\ ~sChunks.panic

ChunkSizes == {Len(sChunks.chunks[i]) : i \in 1..Len(sChunks.chunks)}

RECURSIVE SumLen(_)
SumLen(chunks) == IF chunks = <<>> THEN 0 ELSE Len(Head(chunks)) + SumLen(Tail(chunks))

\* C15: for a Manifest M and a count K with 1 <= K <= len(M), splitFileList
\* returns exactly K parts, their sizes sum to len(M), and the largest and the
\* smallest size differ by at most 1
C15_BalancedSplit ==
    ("split" \in sDone /\ 1 <= sCount /\ sCount <= Len(sFileList))
        => /\ ~sChunks.panic
           /\ Len(sChunks.chunks) = sCount
           /\ SumLen(sChunks.chunks) = Len(sFileList)
           /\ \A m, n \in ChunkSizes : m - n <= 1

\* a split of five paths into three parts, where the remainder is two
C15_Witness ==
    /\ SplitDone /\ sCount = 3 /\ Len(sFileList) = 5
    /\ ChunkSizes = {1, 2}

\* C16: for a non-empty Manifest M and any count K, the parts of
\* splitFileList concatenated in part order are M: the same elements in the same
\* order, each in exactly one part
C16_ConcatenationIsManifest ==
    ("split" \in sDone /\ sFileList # <<>>)
        => /\ ~sChunks.panic
           /\ Flatten(sChunks.chunks) = sFileList

\* a split into more than one part of a Manifest with a repeated path
C16_Witness ==
    /\ SplitDone /\ Len(sChunks.chunks) = 2
    /\ Len(sFileList) = 2 /\ sFileList[1] = sFileList[2]
    /\ Flatten(sChunks.chunks) = sFileList

Min(a, b) == IF a < b THEN a ELSE b

Max(a, b) == IF a > b THEN a ELSE b

\* C17: for a non-empty Manifest M and any integer K, splitFileList returns
\* exactly min(max(K, 1), len(M)) parts, and none of them is empty
C17_ClampedCount ==
    ("split" \in sDone /\ sFileList # <<>>)
        => /\ ~sChunks.panic
           /\ Len(sChunks.chunks) = Min(Max(sCount, 1), Len(sFileList))
           /\ \A i \in 1..Len(sChunks.chunks) : sChunks.chunks[i] # <<>>

\* a count above the length of the Manifest, clamped down to it
C17_Witness ==
    /\ SplitDone /\ sCount > Len(sFileList) /\ Len(sFileList) = 3
    /\ Len(sChunks.chunks) = 3

(***************************************************************************)
(* The manifest text round trip.                                           *)
(***************************************************************************)
NoNewline(list) == \A i \in 1..Len(list) : \A k \in 1..Len(list[i]) : list[i][k] # "\n"

\* non-empty paths with no newline, no leading or trailing white space and no
\* leading "./"
RoundTripPaths(list) ==
    /\ NoNewline(list)
    /\ \A i \in 1..Len(list) :
          /\ list[i] # <<>>
          /\ TrimSpace(list[i]) = list[i]
          /\ ~HasPrefix(list[i], <<".", "/">>)

\* the lines of a text: what precedes each "\n"
TextLines(text) ==
    LET tokens == Split(text, "\n") IN SubSeq(tokens, 1, Len(tokens) - 1)

\* C20: the text written for a Manifest holds one line per path, each
\* starting with "./"; and for a list of non-empty paths with no newline, no
\* leading or trailing white space and no leading "./", parseManifestContent and
\* readManifest both return the list, in order
C20_ManifestTextRoundTrip ==
    /\ ("text" \in sDone /\ NoNewline(sFileList))
          => /\ sText = <<>> \/ sText[Len(sText)] = "\n"
             /\ Len(TextLines(sText)) = Len(sFileList)
             /\ \A i \in 1..Len(sFileList) :
                   /\ HasPrefix(TextLines(sText)[i], <<".", "/">>)
                   /\ sFileList[i] \in {TextLines(sText)[i],
                                         SubSeq(TextLines(sText)[i], 3,
                                                Len(TextLines(sText)[i]))}
    /\ ("parse" \in sDone /\ RoundTripPaths(sFileList)) => sParsed = sFileList
    /\ ("read" \in sDone /\ RoundTripPaths(sFileList)) => sRead = sFileList

\* both parsers have read the text of a two-path Manifest with inner white
\* space and a leading dot
C20_Witness ==
    /\ {"parse", "read"} \subseteq sDone
    /\ sFileList = << <<"a", " ", "b">>, <<".", "a">> >>
    /\ sParsed = sFileList /\ sRead = sFileList


(***************************************************************************)
(* GenerateManifest: the walk of a directory tree that follows symbolic    *)
(* links.  A node of the tree is named by the sequence of names that leads *)
(* to it from the scanned directory; a link holds the node its text names  *)
(* and whether that text is an absolute path.                              *)
(***************************************************************************)
NoTarget == [abs |-> FALSE, to |-> <<>>]

GenNode(typ, target) == [typ |-> typ, target |-> target]

\* a path as the walk holds it: absolute, or relative to the working directory
Key(abs, path) == [abs |-> abs, path |-> path]

\* filepath.EvalSymlinks: the components rest are walked from the resolved
\* directory cur; an absolute link makes the result absolute, a relative one
\* keeps the form of the path so far; at most MaxLinks links are followed
RECURSIVE EvalFrom(_, _, _, _, _)
EvalFrom(tree, abs, cur, rest, fuel) ==
    IF rest = <<>> THEN [err |-> "", abs |-> abs, path |-> cur]
    ELSE LET next == Append(cur, Head(rest))
         IN  IF tree[cur].typ # "dir" \/ next \notin DOMAIN tree
             THEN [err |-> "lstat", abs |-> abs, path |-> next]
             ELSE IF tree[next].typ = "symlink"
             THEN IF fuel = 0
                  THEN [err |-> "loop", abs |-> abs, path |-> next]
                  ELSE EvalFrom(tree, abs \/ tree[next].target.abs, <<>>,
                                tree[next].target.to \o Tail(rest), fuel - 1)
             ELSE EvalFrom(tree, abs, next, Tail(rest), fuel)

EvalSymlinks(tree, realPath) ==
    EvalFrom(tree, realPath.abs, <<>>, realPath.path, MaxLinks)

\* os.Stat, which follows links: the type of the node, or an error
Stat(tree, realPath) ==
    LET ev == EvalSymlinks(tree, realPath)
    IN  IF ev.err # "" THEN [err |-> TRUE, typ |-> None]
        ELSE [err |-> FALSE, typ |-> tree[ev.path].typ]

ChildNames(tree, dir) ==
    {n \in {"a", "d", "f", "g", "l", "m", "p"} : Append(dir, n) \in DOMAIN tree}

RECURSIVE SortNames(_)
SortNames(names) ==
    IF names = {} THEN <<>>
    ELSE LET first == CHOOSE n \in names : \A o \in names \ {n} : Rank(n) < Rank(o)
         IN  <<first>> \o SortNames(names \ {first})

\* os.ReadDir: the entries of a directory, sorted by name
ReadDir(tree, dir) == SortNames(ChildNames(tree, dir))

\* a pending call walkDir(currentPath, realPath)
WalkCall(currentPath, realPath) == [cur |-> currentPath, real |-> realPath]

\* the calls of the loop over the entries of a directory, in order
EntryCalls(tree, call, absRealPath) ==
    LET entries == ReadDir(tree, absRealPath.path)
    IN  [i \in 1..Len(entries) |->
            WalkCall(Append(call.cur, entries[i]),
                     Key(absRealPath.abs, Append(absRealPath.path, entries[i])))]

GenStart ==
    /\ gMain = "idle"
    /\ gMain' = "walking"
    /\ gStack' = <<WalkCall(<<>>, Key(dirPathAbs, <<>>))>>
    /\ UNCHANGED <<envVars, tarVars, untarVars, cpVars, chanVars,
                   fnVars, multiVars,
                   gTree, dirPathAbs, visited, gOut>>

\* one call of walkDir, up to its loop over the entries: the calls of the loop
\* are made next, in order, before what the callers have left
GenVisit ==
    /\ gMain = "walking" /\ gStack # <<>>
    /\ LET call == Head(gStack)
           ev == EvalSymlinks(gTree, call.real)
           absRealPath == IF ev.err = "" THEN Key(ev.abs, ev.path)
                          ELSE Key(TRUE, call.real.path)
           info == Stat(gTree, absRealPath)
       IN  IF absRealPath \in visited
           THEN gStack' = Tail(gStack) /\ UNCHANGED <<visited, gOut>>
           ELSE /\ visited' = visited \cup {absRealPath}
                /\ IF info.err
                   THEN gStack' = Tail(gStack) /\ UNCHANGED gOut
                   ELSE IF info.typ # "dir"
                   THEN /\ gOut' = Append(gOut, [path |-> call.cur, real |-> absRealPath])
                        /\ gStack' = Tail(gStack)
                   ELSE /\ gStack' = EntryCalls(gTree, call, absRealPath) \o Tail(gStack)
                        /\ UNCHANGED gOut
    /\ UNCHANGED <<envVars, tarVars, untarVars, cpVars, chanVars,
                   fnVars, multiVars,
                   gTree, dirPathAbs, gMain>>

GenFinish ==
    /\ gMain = "walking" /\ gStack = <<>>
    /\ gMain' = "returned"
    /\ UNCHANGED <<envVars, tarVars, untarVars, cpVars, chanVars,
                   fnVars, multiVars,
                   gTree, dirPathAbs, gStack, visited, gOut>>

GenNext == GenStart \/ GenVisit \/ GenFinish

\* what a link names: the scanned directory, d, f, the link l, the link d/m,
\* or nothing that exists
LinkTargets ==
    {[abs |-> a, to |-> t] :
        a \in BOOLEAN,
        t \in {<<>>, <<"d">>, <<"f">>, <<"l">>, <<"d", "m">>, <<"x">>}}

\* no link at a name
NoLink == [abs |-> FALSE, to |-> <<"none">>]

\* a tree from the choice of the links at a, l and d/m, and of a fifo at p
GenTree(a, l, m, p) ==
    LET paths == {<<>>, <<"d">>, <<"d", "g">>, <<"f">>}
                    \cup (IF a = NoLink THEN {} ELSE {<<"a">>})
                    \cup (IF l = NoLink THEN {} ELSE {<<"l">>})
                    \cup (IF m = NoLink THEN {} ELSE {<<"d", "m">>})
                    \cup (IF p THEN {<<"p">>} ELSE {})
    IN  [q \in paths |->
            IF q \in {<<>>, <<"d">>} THEN GenNode("dir", NoTarget)
            ELSE IF q = <<"a">> THEN GenNode("symlink", a)
            ELSE IF q = <<"l">> THEN GenNode("symlink", l)
            ELSE IF q = <<"d", "m">> THEN GenNode("symlink", m)
            ELSE IF q = <<"p">> THEN GenNode("fifo", NoTarget)
            ELSE GenNode("file", NoTarget)]

GenInit ==
    /\ \E a \in {NoLink} \cup {t \in LinkTargets : t.to \in {<<"d">>, <<"f">>}},
          l, m \in {NoLink} \cup LinkTargets,
          p \in BOOLEAN :
            gTree = GenTree(a, l, m, p)
    /\ dirPathAbs \in BOOLEAN
    /\ gMain = "idle"
    /\ gStack = <<>>
    /\ visited = {}
    /\ gOut = <<>>
    /\ missing = {} /\ mkdirFault = {} /\ createFault = {}
    /\ TarDone(<<>>)
    /\ UntarIdle
    /\ CpIdle
    /\ FnIdle
    /\ MultiIdle
    /\ ChanIdle /\ OutOpen

SpecGen == GenInit /\ [][GenNext]_vars


(***************************************************************************)
(* Properties of GenerateManifest.                                         *)
(***************************************************************************)
\* the real nodes that the entries of the real directory r lead to
GenSucc(tree, r) ==
    IF tree[r].typ # "dir" THEN {}
    ELSE LET evs == {EvalFrom(tree, FALSE, <<>>, Append(r, n), MaxLinks) :
                        n \in ChildNames(tree, r)}
         IN  {ev.path : ev \in {e \in evs : e.err = ""}}

RECURSIVE GenClosure(_, _)
GenClosure(tree, S) ==
    LET T == S \cup UNION {GenSucc(tree, r) : r \in S}
    IN  IF T = S THEN S ELSE GenClosure(tree, T)

\* the real nodes reachable from the scanned directory by following links
Reachable(tree) == GenClosure(tree, {<<>>})

\* a link that leads to itself through links, or a directory that is reached
\* again from its own entries
HasSymlinkCycle(tree) ==
    \/ \E q \in DOMAIN tree :
          /\ tree[q].typ = "symlink"
          /\ EvalFrom(tree, FALSE, <<>>, q, MaxLinks).err = "loop"
    \/ \E r \in DOMAIN tree : r \in GenClosure(tree, GenSucc(tree, r))

NoDuplicateEntries ==
    \A i, j \in 1..Len(gOut) :
        i # j => /\ gOut[i].path # gOut[j].path
                 /\ gOut[i].real.path # gOut[j].real.path

\* what is left of the walk: the real paths not yet visited, each worth more
\* than the calls one directory can add, then the pending calls
GenMeasure ==
    (Cardinality(DOMAIN gTree) + 1)
            * Cardinality({k \in BOOLEAN \X DOMAIN gTree : Key(k[1], k[2]) \notin visited})
        + Len(gStack)
        + (IF gMain = "idle" THEN 3 ELSE IF gMain = "walking" THEN 1 ELSE 0)

\* the guards of GenStart, GenVisit and GenFinish: a walk that has started can
\* always make its next call, or return when none is pending
GenCanStep ==
    \/ gMain = "idle"
    \/ gMain = "walking" /\ gStack # <<>>
    \/ gMain = "walking" /\ gStack = <<>>

\* C18: on a tree with a symlink cycle GenerateManifest terminates (the walk
\* is never stuck before it returns and every step takes it closer to the
\* return), and the entries written hold no two for the same path or for the
\* same resolved real file
C18_CycleTerminatesNoDuplicates ==
    /\ [](HasSymlinkCycle(gTree)
            => /\ gMain = "returned" \/ GenCanStep
               /\ NoDuplicateEntries)
    /\ [][HasSymlinkCycle(gTree) => GenMeasure' < GenMeasure]_vars

\* C19: on a tree without symlink cycles, once GenerateManifest has
\* returned, every entry names a regular file reachable from the root by
\* following links, and every such file has exactly one entry
C19_ExactlyRegularFiles ==
    (gMain = "returned" /\ ~HasSymlinkCycle(gTree))
        => /\ \A i \in 1..Len(gOut) :
                 /\ gOut[i].real.path \in Reachable(gTree)
                 /\ gTree[gOut[i].real.path].typ = "file"
           /\ \A r \in Reachable(gTree) :
                 gTree[r].typ = "file"
                     => Cardinality({i \in 1..Len(gOut) : gOut[i].real.path = r}) = 1


(***************************************************************************)
(* createMultipleTarsParallel and extractMultipleTarsParallel: one task    *)
(* per part, each running the system tar, and the count failedTars kept    *)
(* under the mutex mu.  Part k of a merge holds its own instance of each   *)
(* of its files, written in MaxBlocks blocks.                              *)
(***************************************************************************)
Parts == 1..Len(mParts)

\* block b of the instance of file path that part k holds
Block(k, path, b) == <<k, path, b>>

InstanceContent(k, path) == [b \in 1..MaxBlocks |-> Block(k, path, b)]

\* the task moves on from entry i of its part
AfterEntry(k, i) ==
    /\ mIdx' = [mIdx EXCEPT ![k] = [entry |-> i + 1, block |-> 1]]
    /\ mPc' = [mPc EXCEPT ![k] = IF i + 1 > Len(mParts[k]) THEN "exit" ELSE "open"]

\* the loop that starts one goroutine per part, up to wg.Wait()
MultiStart ==
    /\ mOp # "idle" /\ mMain = "idle"
    /\ mMain' = "waiting"
    /\ mPc' = [k \in Parts |-> "run"]
    /\ UNCHANGED <<envVars, tarVars, untarVars, cpVars, chanVars,
                   fnVars, genVars, mOp,
                   mParts, mIdx, mSawErr, mErr, mTmp, mMu, failedTars, mRet,
                   mergeDest, partFault, tarFlavour>>

\* createSingleTarWithSystemTar for part k: nothing to do for an empty list,
\* else the error of the tar process
MbRun(k) ==
    /\ mOp = "build" /\ mPc[k] = "run"
    /\ LET err == mParts[k] # <<>> /\ k \in partFault
       IN  /\ mErr' = [mErr EXCEPT ![k] = err]
           /\ mPc' = [mPc EXCEPT ![k] = IF err THEN "lock" ELSE "done"]
    /\ UNCHANGED <<envVars, tarVars, untarVars, cpVars, chanVars,
                   fnVars, genVars, mOp,
                   mParts, mMain, mIdx, mSawErr, mTmp, mMu, failedTars, mRet,
                   mergeDest, partFault, tarFlavour>>

\* the tar process of part k starts: an archive it cannot read ends it with
\* an error before any entry is extracted
MtBegin(k) ==
    /\ mOp = "merge" /\ mPc[k] = "run"
    /\ IF k \in partFault
       THEN /\ mSawErr' = [mSawErr EXCEPT ![k] = TRUE]
            /\ mPc' = [mPc EXCEPT ![k] = "exit"]
       ELSE /\ mPc' = [mPc EXCEPT ![k] = IF mParts[k] = <<>> THEN "exit" ELSE "open"]
            /\ UNCHANGED mSawErr
    /\ UNCHANGED <<envVars, tarVars, untarVars, cpVars, chanVars,
                   fnVars, genVars, mOp,
                   mParts, mMain, mIdx, mErr, mTmp, mMu, failedTars, mRet,
                   mergeDest, partFault, tarFlavour>>

\* variant of MtOpen without -k: an existing file is replaced
MtOpenReplace(k) ==
    /\ mOp = "merge" /\ mPc[k] = "open"
    /\ LET path == mParts[k][mIdx[k].entry]
           claims == IF path \in DOMAIN mergeDest THEN mergeDest[path].claims ELSE <<>>
       IN  /\ mergeDest' =
                  [q \in DOMAIN mergeDest \cup {path} |->
                      IF q = path
                      THEN [content |-> <<>>, owner |-> k, claims |-> Append(claims, k)]
                      ELSE mergeDest[q]]
           /\ mPc' = [mPc EXCEPT ![k] = "write"]
    /\ UNCHANGED <<envVars, tarVars, untarVars, cpVars, chanVars,
                   fnVars, genVars, mOp,
                   mParts, mMain, mIdx, mSawErr, mErr, mTmp, mMu, failedTars,
                   mRet, partFault, tarFlavour>>

\* tar -k opens the file of the entry with O_CREAT|O_EXCL: the file is
\* created for this part, or it exists and the entry is skipped, which GNU tar
\* reports as an error of the run and bsdtar does not
MtOpen(k) ==
    /\ mOp = "merge" /\ mPc[k] = "open"
    /\ LET path == mParts[k][mIdx[k].entry]
       IN  IF path \notin DOMAIN mergeDest
           THEN /\ mergeDest' =
                       [q \in DOMAIN mergeDest \cup {path} |->
                           IF q = path
                           THEN [content |-> <<>>, owner |-> k, claims |-> <<k>>]
                           ELSE mergeDest[q]]
                /\ mPc' = [mPc EXCEPT ![k] = "write"]
                /\ UNCHANGED <<mIdx, mSawErr>>
           ELSE /\ mSawErr' = [mSawErr EXCEPT ![k] = @ \/ tarFlavour = "gnu"]
                /\ AfterEntry(k, mIdx[k].entry)
                /\ UNCHANGED mergeDest
    /\ UNCHANGED <<envVars, tarVars, untarVars, cpVars, chanVars,
                   fnVars, genVars, mOp,
                   mParts, mMain, mErr, mTmp, mMu, failedTars, mRet, partFault,
                   tarFlavour>>

\* the tar process writes the next block to the file it has opened; the
\* block reaches the file at the path only while that is the file it opened
MtWrite(k) ==
    /\ mOp = "merge" /\ mPc[k] = "write"
    /\ LET i == mIdx[k].entry
           b == mIdx[k].block
           path == mParts[k][i]
       IN  /\ IF mergeDest[path].owner = k
              THEN mergeDest' = [mergeDest EXCEPT
                                    ![path].content = Append(@, Block(k, path, b))]
              ELSE UNCHANGED mergeDest
           /\ IF b < MaxBlocks
              THEN /\ mIdx' = [mIdx EXCEPT ![k].block = b + 1]
                   /\ UNCHANGED mPc
              ELSE AfterEntry(k, i)
    /\ UNCHANGED <<envVars, tarVars, untarVars, cpVars, chanVars,
                   fnVars, genVars, mOp,
                   mParts, mMain, mSawErr, mErr, mTmp, mMu, failedTars, mRet,
                   partFault, tarFlavour>>

\* the tar process ends; cmd.CombinedOutput returns its exit status
MtExit(k) ==
    /\ mOp = "merge" /\ mPc[k] = "exit"
    /\ mErr' = [mErr EXCEPT ![k] = mSawErr[k]]
    /\ mPc' = [mPc EXCEPT ![k] = IF mSawErr[k] THEN "lock" ELSE "done"]
    /\ UNCHANGED <<envVars, tarVars, untarVars, cpVars, chanVars,
                   fnVars, genVars, mOp,
                   mParts, mMain, mIdx, mSawErr, mTmp, mMu, failedTars, mRet,
                   mergeDest, partFault, tarFlavour>>

\* variant of MLock: mu is not waited for
MLockUnguarded(k) ==
    /\ mPc[k] = "lock"
    /\ mMu' = k
    /\ mPc' = [mPc EXCEPT ![k] = "load"]
    /\ UNCHANGED <<envVars, tarVars, untarVars, cpVars, chanVars,
                   fnVars, genVars, mOp,
                   mParts, mMain, mIdx, mSawErr, mErr, mTmp, failedTars, mRet,
                   mergeDest, partFault, tarFlavour>>

\* mu.Lock()
MLock(k) ==
    /\ mPc[k] = "lock" /\ mMu = 0
    /\ mMu' = k
    /\ mPc' = [mPc EXCEPT ![k] = "load"]
    /\ UNCHANGED <<envVars, tarVars, untarVars, cpVars, chanVars,
                   fnVars, genVars, mOp,
                   mParts, mMain, mIdx, mSawErr, mErr, mTmp, failedTars, mRet,
                   mergeDest, partFault, tarFlavour>>

\* failedTars++ reads the count
MLoad(k) ==
    /\ mPc[k] = "load"
    /\ mTmp' = [mTmp EXCEPT ![k] = failedTars]
    /\ mPc' = [mPc EXCEPT ![k] = "store"]
    /\ UNCHANGED <<envVars, tarVars, untarVars, cpVars, chanVars,
                   fnVars, genVars, mOp,
                   mParts, mMain, mIdx, mSawErr, mErr, mMu, failedTars, mRet,
                   mergeDest, partFault, tarFlavour>>

\* failedTars++ writes the count; mu.Unlock(); wg.Done()
MStore(k) ==
    /\ mPc[k] = "store"
    /\ failedTars' = mTmp[k] + 1
    /\ mMu' = 0
    /\ mPc' = [mPc EXCEPT ![k] = "done"]
    /\ UNCHANGED <<envVars, tarVars, untarVars, cpVars, chanVars,
                   fnVars, genVars, mOp,
                   mParts, mMain, mIdx, mSawErr, mErr, mTmp, mRet, mergeDest,
                   partFault, tarFlavour>>

\* wg.Wait() returns once every task is done
MultiFinish ==
    /\ mMain = "waiting"
    /\ \A k \in Parts : mPc[k] = "done"
    /\ mMain' = "returned"
    /\ mRet' = IF failedTars > 0 THEN "failed" ELSE "ok"
    /\ UNCHANGED <<envVars, tarVars, untarVars, cpVars, chanVars,
                   fnVars, genVars, mOp,
                   mParts, mPc, mIdx, mSawErr, mErr, mTmp, mMu, failedTars,
                   mergeDest, partFault, tarFlavour>>

MultiNext ==
    \/ MultiStart
    \/ \E k \in Parts : MbRun(k)
    \/ \E k \in Parts : MtBegin(k)
    \/ \E k \in Parts : MtOpen(k)
    \/ \E k \in Parts : MtWrite(k)
    \/ \E k \in Parts : MtExit(k)
    \/ \E k \in Parts : MLock(k)
    \/ \E k \in Parts : MLoad(k)
    \/ \E k \in Parts : MStore(k)
    \/ MultiFinish

\* the files of a part of a merge: up to two of the paths a and b
PartLists == UNION {DistinctSeqs({<<"a">>, <<"b">>}, n) : n \in 0..2}

\* tarMultiCmd.Run: the chunks of a non-empty Manifest for --count tarCount
\* on a machine with numCPU processors
BuildChunks(list, tarCount, numCPU) ==
    LET c == IF tarCount <= 0 THEN numCPU ELSE tarCount
        count == IF c > Len(list) THEN Len(list) ELSE c
    IN  splitFileList(list, count).chunks

MultiInputs ==
    \/ /\ mOp = "merge"
       /\ mParts \in UNION {[1..n -> PartLists] : n \in 1..MaxMergeParts}
       /\ tarFlavour \in {"gnu", "bsd"}
    \/ /\ mOp = "build"
       /\ \E n \in 1..MaxParts + 1, tarCount \in 0..MaxParts, numCPU \in {1, MaxParts} :
             mParts = BuildChunks([i \in 1..n |-> <<SplitNames[i]>>], tarCount, numCPU)
       /\ tarFlavour = "gnu"

MultiInit ==
    /\ MultiInputs
    /\ partFault \in SUBSET Parts
    /\ mMain = "idle"
    /\ mPc = [k \in Parts |-> "idle"]
    /\ mIdx = [k \in Parts |-> [entry |-> 1, block |-> 1]]
    /\ mSawErr = [k \in Parts |-> FALSE]
    /\ mErr = [k \in Parts |-> FALSE]
    /\ mTmp = [k \in Parts |-> 0]
    /\ mMu = 0
    /\ failedTars = 0
    /\ mRet = "running"
    /\ mergeDest = [q \in {} |-> [content |-> <<>>, owner |-> 0, claims |-> <<>>]]
    /\ missing = {} /\ mkdirFault = {} /\ createFault = {}
    /\ TarDone(<<>>)
    /\ UntarIdle
    /\ CpIdle
    /\ FnIdle
    /\ GenIdle
    /\ ChanIdle /\ OutOpen

SpecMulti == MultiInit /\ [][MultiNext]_vars


(***************************************************************************)
(* Properties of the multi-archive build and merge.                        *)
(***************************************************************************)
IsPrefix(s, t) == Len(s) <= Len(t) /\ SubSeq(t, 1, Len(s)) = s

TaskLeft(k) ==
    LET left == (MaxBlocks + 1) * (Len(mParts[k]) - mIdx[k].entry)
    IN  CASE mPc[k] = "done" -> 0
          [] mPc[k] = "store" -> 1
          [] mPc[k] = "load" -> 2
          [] mPc[k] = "lock" -> 3
          [] mPc[k] = "exit" -> 4
          [] mPc[k] = "write" -> 4 + left + (MaxBlocks + 1 - mIdx[k].block)
          [] mPc[k] = "open" -> 4 + left + (MaxBlocks + 1)
          [] mPc[k] = "run" -> 5 + (MaxBlocks + 1) * Len(mParts[k])
          [] OTHER -> 6 + (MaxBlocks + 1) * Len(mParts[k])

RECURSIVE SumTaskLeft(_)
SumTaskLeft(n) == IF n = 0 THEN 0 ELSE TaskLeft(n) + SumTaskLeft(n - 1)

MultiMeasure == SumTaskLeft(Len(mParts)) + (IF mMain = "returned" THEN 0 ELSE 1)

\* the guards of the actions: some step can be taken
MultiCanStep ==
    \/ mMain = "idle"
    \/ \E k \in Parts : mPc[k] \in {"run", "open", "write", "exit", "load", "store"}
    \/ \E k \in Parts : mPc[k] = "lock" /\ mMu = 0
    \/ mMain = "waiting" /\ \A k \in Parts : mPc[k] = "done"

FailedParts == {k \in Parts : mErr[k]}

\* C14: in a build and in a merge every part has its own task, and whatever
\* fails, the run is never stuck before it returns and every step takes it
\* closer to the return, so every task reaches its end; the call returns after
\* all of them, with a failure exactly if some part failed, and failedTars is the
\* number of parts that failed
C14_PartFailuresCounted ==
    /\ [](Len(mPc) = Len(mParts))
    /\ [](mMain = "returned" \/ MultiCanStep)
    /\ [][MultiMeasure' < MultiMeasure]_vars
    /\ [](mMain = "returned"
            => /\ \A k \in Parts : mPc[k] = "done"
               /\ failedTars = Cardinality(FailedParts)
               /\ mRet = "failed" <=> FailedParts # {})

\* a build of three parts where two failed and the third did not
C14_Witness ==
    /\ mOp = "build" /\ mMain = "returned"
    /\ Len(mParts) = 3 /\ FailedParts = {1, 2} /\ partFault = {1, 2}
    /\ failedTars = 2 /\ mRet = "failed"


(***************************************************************************)
(* The locks and the fatal error of the mutex-based archive build.         *)
(***************************************************************************)
\* worker w is between the start of a header write and the end of the entry
Writing(w) == wPc[w] \in {"header", "content", "failH", "setH", "failC", "setC"}

\* the content that belongs to the entry of header h
EntryContent(h) ==
    IF h.name = manifestName THEN ManifestText(fileList) ELSE SrcContent(h.name)

\* the entry whose header is the last frame, or whose content is cut short,
\* is the one a worker is still writing or the one whose write failed
EntryOpen(h) ==
    \/ \E w \in Workers : wPc[w] \in {"content", "failC", "setC"} /\ wHeader[w] = h
    \/ writeErr.what = "content" /\ ToSlash(writeErr.path) = h.name
    \/ tarRet = "manifestErr" /\ h.name = manifestName

\* C21: at every moment at most one worker is between the start of a header
\* write and the end of that entry's content, and it holds mu; in the archive
\* stream every header is directly followed by the content of its own entry,
\* complete unless that is the entry still being written or the one whose write
\* failed, and every content frame directly follows a header
C21_EntriesNotInterleaved ==
    /\ \A w \in Workers : Writing(w) => mu = w
    /\ \A v, w \in Workers : Writing(v) /\ Writing(w) => v = w
    /\ \A j \in 1..Len(tarFile) :
          IF tarFile[j].k = "hdr"
          THEN IF j = Len(tarFile) THEN EntryOpen(tarFile[j])
               ELSE /\ tarFile[j + 1].k = "data"
                    /\ IsPrefix(tarFile[j + 1].bytes, EntryContent(tarFile[j]))
                    /\ tarFile[j + 1].bytes # EntryContent(tarFile[j])
                           => j + 1 = Len(tarFile) /\ EntryOpen(tarFile[j])
          ELSE j > 1 /\ tarFile[j - 1].k = "hdr"

\* one worker has written a header after a complete entry while the other
\* waits for mu
C21_Witness ==
    /\ concurrency = 2
    /\ \E v, w \in Workers : wPc[v] = "content" /\ wPc[w] = "lock"
    /\ Len(tarFile) = 3

\* C22: a worker leaves its loop over the queue only when the queue is
\* closed and drained, also after the fatal error has been recorded
C22_WorkersDrainQueue ==
    [][\A w \in Workers :
          (wPc[w] # "exit" /\ wPc'[w] = "exit") => (chanClosed /\ taskChan = <<>>)]_vars

\* C23: once the fatal error is set no step adds a frame to the archive
\* stream, and a worker is at a write only with the fatal error unset and mu
\* held, because it read the fatal error after taking mu
C23_NoWriteAfterFatal ==
    /\ [][writeErr # NoErr => tarFile' = tarFile]_vars
    /\ [](\A w \in Workers :
             wPc[w] \in {"header", "content"} => writeErr = NoErr /\ mu = w)

\* the fatal error is set and a worker that took mu is about to read it
C23_Witness ==
    /\ writeErr # NoErr
    /\ \E w \in Workers : wPc[w] = "read2" /\ mu = w

\* workers with a write error that is not recorded yet
Failing == {w \in Workers : wPc[w] \in {"failH", "setH", "failC", "setC"}}

\* C24: the fatal error, once set, never changes; no write error occurs
\* beside it (at most one worker has a failed write, and none once the fatal
\* error is set); and a build that returns with it set returns it
C24_FatalErrorSetOnce ==
    /\ [][writeErr # NoErr => writeErr' = writeErr]_vars
    /\ [](Cardinality(Failing) <= 1 /\ (writeErr # NoErr => Failing = {}))
    /\ []((tarMain = "returned" /\ writeErr # NoErr) => tarRet = "writeErr")

\* a build of two workers that returned the content write error of one
C24_Witness ==
    /\ tarMain = "returned" /\ tarRet = "writeErr"
    /\ concurrency = 2
    /\ writeErr.what = "content"

\* C28: a worker holds mu only from mu.Lock() to the end of the entry and
\* writeErrMu only around a read or the assignment of the fatal error; a worker
\* that goes on to its next item, waits for mu or has left holds neither; and the
\* holder of a lock is never itself waiting for mu, so it can release the lock
C28_LockDiscipline ==
    /\ \A w \in Workers :
          /\ mu = w => wPc[w] \in {"check2", "read2", "header", "content",
                                    "failH", "setH", "failC", "setC"}
          /\ writeErrMu = w => wPc[w] \in {"read1", "read2", "setH", "setC"}
    /\ mu \in {0} \cup Workers
    /\ writeErrMu \in {0} \cup Workers
    /\ \A w \in Workers :
          (wPc[w] \in {"check1", "check2", "failH", "failC"} /\ writeErrMu # 0)
              => wPc[writeErrMu] \in {"read1", "read2", "setH", "setC"}

\* a worker has left on a write error with both locks free while another
\* waits for mu
C28_Witness ==
    /\ writeErr # NoErr /\ mu = 0 /\ writeErrMu = 0
    /\ \E v, w \in Workers : wPc[v] = "exit" /\ wPc[w] = "lock"

\* C30: in an archive of a build that reports success the reserved manifest
\* entry occurs once, as the last entry, after every data entry, and its content
\* is one line "./path" per Manifest path, in Manifest order
C30_ManifestLastAndComplete ==
    tarRet = "ok"
        => /\ HeadersOf(manifestName) = {Len(tarFile) - 1}
           /\ \A i \in 1..Len(fileList) :
                  \A j \in HeadersOf(ToSlash(fileList[i])) : j + 1 < Len(tarFile) - 1
           /\ Len(tarFile) = 2 * Len(fileList) + 2
           /\ LET lines == TextLines(tarFile[Len(tarFile)].bytes)
              IN  /\ Len(lines) = Len(fileList)
                  /\ \A i \in 1..Len(fileList) : lines[i] = <<".", "/">> \o fileList[i]

\* a successful build of a Manifest of three paths by two workers
C30_Witness ==
    /\ tarRet = "ok" /\ concurrency = 2 /\ Len(fileList) = 3
    /\ Len(tarFile) = 8


(***************************************************************************)
(* The manifest test of extraction phase 1.                                *)
(***************************************************************************)
\* C29: a step of phase 1 that takes an entry captures it as the embedded
\* Manifest, leaving the buffered entries alone, exactly when its normalized name
\* is the reserved name; an entry of any other name is buffered under its name
\* and leaves the Manifest alone
C29_ManifestOnlyByReservedName ==
    [][(xMain = "read" /\ readPos' > readPos) =>
          LET normalizedPath == NormalizeName(tarFile[readPos].name)
          IN  IF normalizedPath = manifestName
              THEN /\ manifestContent' = [found |-> TRUE, text |-> ContentAt(readPos)]
                   /\ fileDataMap' = fileDataMap
              ELSE /\ manifestContent' = manifestContent
                   /\ normalizedPath \in DOMAIN fileDataMap']_vars


(***************************************************************************)
(* The directory cache of copyFile.                                        *)
(***************************************************************************)
CpWorkers == 1..cConcurrency

\* C26: a worker that is past the directory step of copyFile, because it
\* found the directory recorded or because it created it, has the directory of
\* its destination file on disk
C26_CachedDirectoryExists ==
    \A w \in CpWorkers :
        cPc[w] = "open" => ParentExists(destDir, JoinRoot(cItem[w]))

\* worker w goes on to os.MkdirAll in this step
IssuesMkdir(w) == cPc[w] # "mkdir" /\ cPc'[w] = "mkdir"

\* C27: a worker issues the directory creation only in the step that enters
\* the directory into the cache, which was not recorded before; a record leaves
\* the cache only in the step of a worker whose creation of that directory
\* failed, and that step removes it; so with no failed creation each directory
\* is entered once and created by at most one call, and after a failed creation
\* the next copyFile for the directory finds it unrecorded and creates it again
C27_OneCreationPerDirectory ==
    /\ [][\A w \in CpWorkers :
             IssuesMkdir(w) => /\ DestDirOf(cItem[w]) \notin dirCache
                               /\ dirCache' = dirCache \cup {DestDirOf(cItem[w])}]_vars
    /\ [][\A d \in dirCache \ dirCache' :
             \E w \in CpWorkers :
                 /\ cPc[w] = "mkdir" /\ cPc'[w] = "recv"
                 /\ DestDirOf(cItem[w]) = d
                 /\ MkdirAllFails(destDir, d)]_vars
    /\ [][\A w \in CpWorkers :
             (cPc[w] = "mkdir" /\ MkdirAllFails(destDir, DestDirOf(cItem[w]))
                  /\ cPc'[w] # "mkdir")
                 => DestDirOf(cItem[w]) \notin dirCache']_vars
    /\ [](\A v, w \in CpWorkers :
             (cPc[v] = "mkdir" /\ cPc[w] = "mkdir"
                  /\ DestDirOf(cItem[v]) = DestDirOf(cItem[w])) => v = w)

\* two workers with files of the same directory and no fault: one is about
\* to create it, the other went on because it found it recorded
C27_Witness ==
    /\ mkdirFault = {}
    /\ \E v, w \in CpWorkers :
          /\ v # w
          /\ DestDirOf(cItem[v]) = DestDirOf(cItem[w])
          /\ cPc[v] = "mkdir" /\ cPc[w] = "open"


(***************************************************************************)
(* createTarParallel of tar.go: reader workers take paths from taskChan    *)
(* and send each file, read in full, over dataChan to one writer goroutine *)
(* that writes the archive.  The dispatch loop, close(taskChan) and the    *)
(* end of the call are those of TarSend, TarClose and TarFinish.           *)
(***************************************************************************)
\* readFileForTar: os.Stat, os.Open, io.ReadAll, FileInfoHeader
readFileForTar(relPath) ==
    LET r == readFileHeaderForTar(relPath)
    IN  IF r.err # None THEN FileData(relPath, <<>>, NoHeader, r.err)
        ELSE FileData(relPath, SrcContent(relPath), r.header, None)

\* for relPath := range taskChan; readFileForTar
RdRecv(r) ==
    /\ wPc[r] = "recv"
    /\ taskChan # <<>>
    /\ wItem' = [wItem EXCEPT ![r] = Head(taskChan)]
    /\ taskChan' = Tail(taskChan)
    /\ wPc' = [wPc EXCEPT ![r] = "send"]
    /\ UNCHANGED <<envVars, untarVars, cpVars, fnVars, genVars, multiVars,
                   fileList, concurrency, sendIdx, chanClosed, tarMain,
                   wHeader, mu, writeErrMu, writeErr, processedFiles,
                   failedFiles, tarFile, tarRet, dataChan, dataChanClosed,
                   writerPc, writerData, processedCount>>

\* dataChan <- data, blocking while the channel holds concurrency*2 items
RdSend(r) ==
    /\ wPc[r] = "send"
    /\ Len(dataChan) < concurrency * 2
    /\ dataChan' = Append(dataChan, readFileForTar(wItem[r]))
    /\ wPc' = [wPc EXCEPT ![r] = "recv"]
    /\ UNCHANGED <<envVars, untarVars, cpVars, fnVars, genVars, multiVars,
                   fileList, concurrency, taskChan, sendIdx, chanClosed,
                   tarMain, wItem, wHeader, mu, writeErrMu, writeErr,
                   processedFiles, failedFiles, tarFile, tarRet,
                   dataChanClosed, writerPc, writerData, processedCount>>

\* the range loop ends: taskChan is closed and drained; defer wg.Done()
RdExit(r) ==
    /\ wPc[r] = "recv"
    /\ taskChan = <<>>
    /\ chanClosed
    /\ wPc' = [wPc EXCEPT ![r] = "exit"]
    /\ UNCHANGED <<envVars, untarVars, cpVars, fnVars, genVars, multiVars,
                   fileList, concurrency, taskChan, sendIdx, chanClosed,
                   tarMain, wItem, wHeader, mu, writeErrMu, writeErr,
                   processedFiles, failedFiles, tarFile, tarRet, dataChan,
                   dataChanClosed, writerPc, writerData, processedCount>>

\* wg.Wait(); close(dataChan)
ChWait ==
    /\ tarMain = "wait"
    /\ \A r \in Workers : wPc[r] = "exit"
    /\ dataChanClosed' = TRUE
    /\ tarMain' = "join"
    /\ UNCHANGED <<envVars, untarVars, cpVars, fnVars, genVars, multiVars,
                   fileList, concurrency, taskChan, sendIdx, chanClosed, wPc,
                   wItem, wHeader, mu, writeErrMu, writeErr, processedFiles,
                   failedFiles, tarFile, tarRet, dataChan, writerPc,
                   writerData, processedCount>>

\* <-writeDone, the final progress read
ChJoin ==
    /\ tarMain = "join"
    /\ writerPc = "done"
    /\ tarMain' = "final"
    /\ UNCHANGED <<envVars, untarVars, cpVars, fnVars, genVars, multiVars,
                   fileList, concurrency, taskChan, sendIdx, chanClosed, wPc,
                   wItem, wHeader, mu, writeErrMu, writeErr, processedFiles,
                   failedFiles, tarFile, tarRet, dataChan, dataChanClosed,
                   writerPc, writerData, processedCount>>

\* the writer goroutine: for processedCount < totalFiles { data, ok := <-dataChan;
\* a failed read is counted, the loop goes on
WrRecv ==
    /\ writerPc = "recv"
    /\ processedCount < Len(fileList)
    /\ dataChan # <<>> \/ dataChanClosed
    /\ IF dataChan = <<>>
       THEN /\ writeErr' = WriteErrOf("closed", <<>>)
            /\ writerPc' = "done"
            /\ UNCHANGED <<dataChan, writerData, processedCount, failedFiles,
                           processedFiles>>
       ELSE /\ dataChan' = Tail(dataChan)
            /\ writerData' = Head(dataChan)
            /\ processedCount' = processedCount + 1
            /\ UNCHANGED writeErr
            /\ IF Head(dataChan).err # None
               THEN /\ failedFiles' = failedFiles + 1
                    /\ processedFiles' = processedFiles + 1
                    /\ UNCHANGED writerPc
               ELSE /\ writerPc' = "header"
                    /\ UNCHANGED <<failedFiles, processedFiles>>
    /\ UNCHANGED <<envVars, untarVars, cpVars, fnVars, genVars, multiVars,
                   fileList, concurrency, taskChan, sendIdx, chanClosed,
                   tarMain, wPc, wItem, wHeader, mu, writeErrMu, tarFile,
                   tarRet, dataChanClosed>>

\* the loop of the writer goroutine ends: defer close(writeDone)
WrEnd ==
    /\ writerPc = "recv"
    /\ processedCount >= Len(fileList)
    /\ writerPc' = "done"
    /\ UNCHANGED <<envVars, untarVars, cpVars, fnVars, genVars, multiVars,
                   fileList, concurrency, taskChan, sendIdx, chanClosed,
                   tarMain, wPc, wItem, wHeader, mu, writeErrMu, writeErr,
                   processedFiles, failedFiles, tarFile, tarRet, dataChan,
                   dataChanClosed, writerData, processedCount>>

\* tarWriter.WriteHeader(data.header); on an error writeErr is set and the
\* goroutine returns
WrHeader ==
    /\ writerPc = "header"
    /\ \/ /\ tarFile' = Append(tarFile, writerData.header)
          /\ writerPc' = "content"
          /\ UNCHANGED <<writeErr, processedFiles>>
       \/ /\ writeErr' = WriteErrOf("header", writerData.relPath)
          /\ processedFiles' = processedFiles + 1
          /\ writerPc' = "done"
          /\ UNCHANGED tarFile
    /\ UNCHANGED <<envVars, untarVars, cpVars, fnVars, genVars, multiVars,
                   fileList, concurrency, taskChan, sendIdx, chanClosed,
                   tarMain, wPc, wItem, wHeader, mu, writeErrMu, failedFiles,
                   tarRet, dataChan, dataChanClosed, writerData,
                   processedCount>>

\* tarWriter.Write(data.content); on an error writeErr is set and the
\* goroutine returns
WrContent ==
    /\ writerPc = "content"
    /\ processedFiles' = processedFiles + 1
    /\ \/ /\ tarFile' = Append(tarFile, DataFrame(writerData.content))
          /\ writerPc' = "recv"
          /\ UNCHANGED writeErr
       \/ /\ writeErr' = WriteErrOf("content", writerData.relPath)
          /\ writerPc' = "done"
          /\ UNCHANGED tarFile
    /\ UNCHANGED <<envVars, untarVars, cpVars, fnVars, genVars, multiVars,
                   fileList, concurrency, taskChan, sendIdx, chanClosed,
                   tarMain, wPc, wItem, wHeader, mu, writeErrMu, failedFiles,
                   tarRet, dataChan, dataChanClosed, writerData,
                   processedCount>>

ChanNext ==
    \/ TarSend
    \/ TarClose
    \/ ChWait
    \/ ChJoin
    \/ TarFinish
    \/ \E r \in Workers : RdRecv(r)
    \/ \E r \in Workers : RdSend(r)
    \/ \E r \in Workers : RdExit(r)
    \/ WrRecv
    \/ WrEnd
    \/ WrHeader
    \/ WrContent

ChanInit ==
    /\ \E list \in TarManifests, conc \in 1..MaxConc : TarStart(list, conc)
    /\ missing \in SUBSET SeqRange(fileList)
    /\ mkdirFault = {}
    /\ createFault = {}
    /\ UntarIdle
    /\ CpIdle
    /\ FnIdle /\ GenIdle /\ MultiIdle /\ ChanIdle /\ OutOpen

SpecChan == ChanInit /\ [][ChanNext]_vars

\* the guards of the steps of the channel-based build: some goroutine can go on
ChanCanStep ==
    \/ tarMain = "send"
          /\ (sendIdx > Len(fileList) \/ Len(taskChan) < concurrency * 2)
    \/ tarMain = "wait" /\ \A r \in Workers : wPc[r] = "exit"
    \/ tarMain = "join" /\ writerPc = "done"
    \/ tarMain = "final"
    \/ \E r \in Workers : wPc[r] = "recv" /\ (taskChan # <<>> \/ chanClosed)
    \/ \E r \in Workers : wPc[r] = "send" /\ Len(dataChan) < concurrency * 2
    \/ writerPc = "recv"
          /\ (processedCount >= Len(fileList) \/ dataChan # <<>> \/ dataChanClosed)
    \/ writerPc \in {"header", "content"}

\* C25: the channel-based build returns: before it has returned some
\* goroutine can always go on, so no reader stays blocked on dataChan and the
\* dispatcher does not stay blocked on taskChan, also after the writer goroutine
\* has stopped on a write error
C25_ChannelBuildReturns == tarMain = "returned" \/ ChanCanStep

(***************************************************************************)
(* Claims about the pre-creation of directories (SpecUntar).               *)
(***************************************************************************)
IsDirectory(t, p) == p \in DOMAIN t /\ t[p].typ = TypeDir

\* the pre-creation has succeeded and no worker has written anything yet
BeforeWorkers == xMain \in {"send", "wait"} /\ xProcessed = 0

\* extraction has stopped without a worker having started
NoWorkerStarted ==
    /\ xProcessed = 0
    /\ xTaskChan = <<>>
    /\ xSendIdx = 1
    /\ \A w \in 1..xConcurrency : xPc[w] = "recv"

\* C31 as stated: before any worker starts, every ancestor directory of every
\* Manifest path and every directory-type entry of the archive is a directory
\* of the destination; a failed creation stops extraction before any worker
\* starts
C31_AllDirectoriesPrecreated ==
    /\ BeforeWorkers =>
          /\ \A i \in 1..Len(xFileList) : \A a \in Ancestors(xFileList[i]) :
                IsDirectory(dest, JoinRoot(a))
          /\ \A j \in 1..Len(tarFile) :
                (tarFile[j].k = "hdr" /\ tarFile[j].typ = TypeDir) =>
                    IsDirectory(dest, JoinRoot(NormalizeName(tarFile[j].name)))
    /\ xRet = "mkdirErr" => NoWorkerStarted

\* C31 (amended): before any worker starts, every ancestor directory of every
\* Manifest path that has a buffered entry, and every Manifest path whose
\* buffered entry is a directory, is a directory of the destination; a failed
\* creation stops extraction before any worker starts
C31_NeededDirectoriesPrecreated ==
    /\ BeforeWorkers =>
          \A i \in 1..Len(xFileList) :
              xFileList[i] \in DOMAIN fileDataMap =>
                  /\ \A a \in Ancestors(xFileList[i]) : IsDirectory(dest, JoinRoot(a))
                  /\ fileDataMap[xFileList[i]].header.typ = TypeDir =>
                        IsDirectory(dest, JoinRoot(xFileList[i]))
    /\ xRet = "mkdirErr" =>
          /\ NoWorkerStarted
          /\ \E i \in 1..Len(xFileList) :
                /\ xFileList[i] \in DOMAIN fileDataMap
                /\ (Ancestors(xFileList[i]) \cup {xFileList[i]}) \cap mkdirFault # {}

C31_Witness ==
    /\ BeforeWorkers
    /\ Len(xFileList) = 2
    /\ xFileList[1] = <<"d", "/", "b">>
    /\ xFileList[1] \in DOMAIN fileDataMap
    /\ xFileList[2] \in DOMAIN fileDataMap
    /\ fileDataMap[xFileList[2]].header.typ = TypeDir
    /\ IsDirectory(dest, <<"d">>)

(***************************************************************************)
(* Claims about the progress counters.                                     *)
(***************************************************************************)
\* C32: at the final progress read of the mutex-based archive build, after
\* all workers have joined, the processed counter equals the number of
\* Manifest entries
C32_FinalReadIsTotal ==
    tarMain = "final" =>
        /\ \A w \in Workers : wPc[w] = "exit"
        /\ processedFiles = Len(fileList)

(***************************************************************************)
(* extractTarParallel on archives whose entry names and link targets leave *)
(* the destination root.                                                   *)
(***************************************************************************)
UpX == <<".", ".", "/", "x">>

DownUpX == <<"d", "/", ".", ".", "/", ".", ".", "/", "x">>

\* "a" and "/a" are the same destination path; the other names lead above
\* the destination root
EscapeEntries ==
    { RegEntry(<<"a">>, <<"A1">>, {"ur", "uw"}),
      RegEntry(<<"/", "a">>, <<"A2">>, {"ur", "uw"}),
      RegEntry(UpX, <<"X">>, {"ur", "uw"}),
      RegEntry(DownUpX, <<"Y">>, {"ur", "uw"}),
      OtherEntry(<<".", ".", "/", "s">>, TypeSymlink, <<"a">>),
      OtherEntry(<<".", ".", "/", "q">>, TypeDir, <<>>),
      OtherEntry(<<"h">>, TypeLink, UpX) }

EscapePaths ==
    {<<"a">>, <<"/", "a">>, UpX, DownUpX, <<".", ".", "/", "s">>,
     <<".", ".", "/", "q">>, <<"h">>}

\* an archive: up to MaxEntries entries followed by the embedded manifest
EscapeArchives ==
    {Flatten(Append(b, ManifestEntry(m))) :
        b \in UNION {DistinctSeqs(EscapeEntries, n) : n \in 0..MaxEntries},
        m \in UNION {DistinctSeqs(EscapePaths, n) : n \in 1..MaxManifest}}

EscapeInit ==
    /\ \E archive \in EscapeArchives : TarDone(archive)
    /\ \E conc \in 1..MaxConc : UntarStart(conc)
    /\ missing = {}
    /\ mkdirFault = {}
    /\ createFault = {}
    /\ CpIdle
    /\ FnIdle /\ GenIdle /\ MultiIdle /\ ChanIdle /\ OutOpen

SpecEscape == EscapeInit /\ [][UntarNext]_vars

\* the path, relative to the destination root, lies outside the root
Outside(p) == Components(p) # <<>> /\ Components(p)[1] = DotDot

\* C33: every file, directory and link that extraction creates lies inside
\* the destination root, whatever the Manifest paths are
C33_PathContainment == \A p \in DOMAIN dest : ~Outside(p)

(***************************************************************************)
(* Claims about the entries extraction writes (SpecUntar).                 *)
(***************************************************************************)
\* the Manifest names a regular-file entry that is the link target of entry
LinkTargetListed(entry) ==
    \E j \in 1..Len(xFileList) :
        /\ xFileList[j] \in DOMAIN fileDataMap
        /\ fileDataMap[xFileList[j]].header.typ = TypeReg
        /\ JoinRoot(xFileList[j]) = JoinRoot(entry.header.link)
        /\ JoinRoot(xFileList[j]) \notin createFault

\* C34: when the workers have run, a hardlink entry of the Manifest whose link
\* target is a regular file of the same Manifest has been materialized without
\* a failure, whatever the order in which the workers wrote
C34_HardlinkIndependentOfOrder ==
    (xMain = "returned" /\ xRet \in {"ok", "failed"}) =>
        \A i \in 1..Len(xFileList) :
            LET p == xFileList[i]
            IN  (/\ p \in DOMAIN fileDataMap
                 /\ fileDataMap[p].header.typ = TypeLink
                 /\ JoinRoot(p) \notin createFault
                 /\ LinkTargetListed(fileDataMap[p]))
                    => /\ xAttempts[p].fail = 0
                       /\ JoinRoot(p) \in DOMAIN dest

(***************************************************************************)
(* The deferred calls of createTarParallel: tarWriter.Close() writes the   *)
(* archive trailer, bufferedWriter.Flush() hands the buffered bytes to the *)
(* output file, outFile.Close() closes it.  They run after the return      *)
(* value has been fixed and their errors are dropped.                      *)
(***************************************************************************)
TarDeferredClose ==
    /\ tarMain = "returned"
    /\ outFile = "open"
    /\ outFile' \in {"complete", "closeErr", "flushErr"}
    /\ UNCHANGED <<missing, mkdirFault, createFault, readFault, writeFault,
                   tarVars, untarVars, cpVars, moreVars>>

CloseNext ==
    \/ TarNext
    \/ TarDeferredClose

SpecClose == TarInit /\ [][CloseNext]_vars

\* C35: a build that reports success has written the whole archive to the
\* output file: when closing the archive writer or flushing the buffer has
\* failed, the call does not return success
C35_SuccessMeansWritten ==
    (tarMain = "returned" /\ outFile # "open" /\ tarRet = "ok") =>
        outFile = "complete"

\* the entry at position j of the archive stream is named p, with or without
\* a leading "./"
NamesPath(j, p) ==
    /\ tarFile[j].k = "hdr"
    /\ tarFile[j].name = p \/ tarFile[j].name = <<".", "/">> \o p

\* the position of the last entry of the stream named p
LastEntryOf(p) ==
    CHOOSE j \in 1..Len(tarFile) :
        NamesPath(j, p) /\ \A k \in (j + 1)..Len(tarFile) : ~NamesPath(k, p)

\* the whole stream has been read
StreamRead == xMain \notin {"idle", "read"} /\ xRet # "readErr"

\* C36: of several entries of the stream whose names normalize to the same
\* path, the one buffered is the last in stream order; a Manifest path whose
\* last entry is a regular file the destination accepts is written once per
\* listing, with the content and mode of that last entry
C36_LastDuplicateWins ==
    /\ StreamRead =>
          \A p \in DOMAIN fileDataMap :
              /\ \E j \in 1..Len(tarFile) : NamesPath(j, p)
              /\ fileDataMap[p].header = tarFile[LastEntryOf(p)]
              /\ fileDataMap[p].header.typ = TypeReg =>
                    fileDataMap[p].content = ContentAt(LastEntryOf(p))
    /\ (xMain = "returned" /\ xRet \in {"ok", "failed"}) =>
          \A i \in 1..Len(xFileList) :
              LET p == xFileList[i]
              IN  (/\ p \in DOMAIN fileDataMap
                   /\ tarFile[LastEntryOf(p)].typ = TypeReg
                   /\ JoinRoot(p) \notin createFault)
                      => /\ JoinRoot(p) \in DOMAIN dest
                         /\ dest[JoinRoot(p)].typ = TypeReg
                         /\ dest[JoinRoot(p)].content = ContentAt(LastEntryOf(p))
                         /\ dest[JoinRoot(p)].mode =
                               SyscallPerm(tarFile[LastEntryOf(p)].mode)
                         /\ xAttempts[p].att = Occurrences(xFileList, p)
                         /\ xAttempts[p].fail = 0

\* the stream holds "a" and then "./a"; the content of "./a" is what was written
C36_Witness ==
    /\ xMain = "returned"
    /\ xRet = "ok"
    /\ \E j, k \in 1..Len(tarFile) :
          /\ j < k
          /\ tarFile[j].k = "hdr" /\ tarFile[j].name = <<"a">>
          /\ tarFile[k].k = "hdr" /\ tarFile[k].name = <<".", "/", "a">>
    /\ <<"a">> \in DOMAIN dest
    /\ dest[<<"a">>].content = <<"A2">>
    /\ dest[<<"a">>].mode = {"ur"}

\* the Manifest paths that have a buffered entry
ListedEntries == SeqRange(xFileList) \cap DOMAIN fileDataMap

\* C37: everything in the destination is at a Manifest path that has an entry,
\* or is a directory above such a path; whatever is not a directory is at a
\* Manifest path and of the kind of its entry; nothing is at the path of the
\* reserved manifest entry
C37_OnlyManifestPathsWritten ==
    /\ \A q \in DOMAIN dest :
          \/ \E p \in ListedEntries :
                /\ q = JoinRoot(p)
                /\ dest[q].typ = IF fileDataMap[p].header.typ = TypeLink
                                 THEN TypeReg ELSE fileDataMap[p].header.typ
          \/ /\ dest[q].typ = TypeDir
             /\ \E p \in ListedEntries : q \in {JoinRoot(a) : a \in Ancestors(p)}
    /\ \A q \in DOMAIN dest : ~IsManifestEntry(q)

\* the archive holds the regular file "a" and the directory "d", the Manifest
\* names only "a": after the extraction "a" is in the destination and "d" is not
C37_Witness ==
    /\ xMain = "returned"
    /\ xRet = "ok"
    /\ \E j \in 1..Len(tarFile) : NamesPath(j, <<"a">>)
    /\ \E j \in 1..Len(tarFile) : NamesPath(j, <<"d">>)
    /\ xFileList = <<<<"a">>>>
    /\ <<"a">> \in DOMAIN dest
    /\ <<"d">> \notin DOMAIN dest

\* the paths taken from the queue so far, and the workers that hold one
TarDequeued == sendIdx - 1 - Len(taskChan)

TarInFlight == {w \in Workers : wPc[w] \notin {"recv", "exit"}}

UntarDequeued == xSendIdx - 1 - Len(xTaskChan)

UntarInFlight == {w \in 1..xConcurrency : xPc[w] \notin {"recv", "exit"}}

CpDequeued == cSendIdx - 1 - Len(cTaskChan)

CpInFlight == {w \in 1..cConcurrency : cPc[w] \notin {"recv", "exit"}}

\* a step changes the counters by: nothing, or processed + 1 with failed + 0 or 1
CountsOnce(processed, failed, processedNext, failedNext) ==
    /\ processedNext \in {processed, processed + 1}
    /\ failedNext \in {failed, failed + 1}
    /\ failedNext # failed => processedNext = processed + 1

IsDataHeader(f) == f.k = "hdr" /\ f.name # manifestName

\* the headers of the data entries, in stream order
DataHeaders == SelectSeq(tarFile, IsDataHeader)

\* the Manifest position of the path an entry is named after
ManifestPos(name) == CHOOSE k \in 1..Len(fileList) : ToSlash(fileList[k]) = name

InManifestOrder(hs) ==
    \A i, j \in 1..Len(hs) :
        i < j => ManifestPos(hs[i].name) < ManifestPos(hs[j].name)

\* C39: with one worker the data entries are in Manifest order, and a
\* successful build holds exactly the Manifest paths in that order; with any
\* number of workers an entry is added to the stream by the worker that holds
\* the write lock, and is the entry of the path that worker dequeued, so the
\* entries are in the order of the lock acquisitions
C39_EntryOrder ==
    /\ [](concurrency = 1 =>
             /\ InManifestOrder(DataHeaders)
             /\ (tarMain = "returned" /\ tarRet = "ok") =>
                   /\ Len(DataHeaders) = Len(fileList)
                   /\ \A i \in 1..Len(fileList) :
                         DataHeaders[i].name = ToSlash(fileList[i]))
    /\ [][(tarMain # "final" /\ tarFile' # tarFile) =>
             \E w \in Workers :
                 /\ mu = w
                 /\ Len(tarFile') = Len(tarFile) + 1
                 /\ SubSeq(tarFile', 1, Len(tarFile)) = tarFile
                 /\ tarFile'[Len(tarFile')].k = "hdr" =>
                       tarFile'[Len(tarFile')] = wHeader[w]
                 /\ wHeader[w].name = ToSlash(wItem[w])]_vars

\* two workers: the build has succeeded and the entries are not in Manifest
\* order
C39_Witness ==
    /\ concurrency = 2
    /\ tarMain = "returned"
    /\ tarRet = "ok"
    /\ Len(DataHeaders) = Len(fileList)
    /\ ~InManifestOrder(DataHeaders)

\* C40: splitFileList returns for every Manifest and count, and for the empty
\* Manifest it returns the empty list of parts
C40_SplitAlwaysReturns ==
    "split" \in sDone =>
        /\ ~sChunks.panic
        /\ sFileList = <<>> => sChunks.chunks = <<>>

====
